---- MODULE Spec2Model ----
(***************************************************************************)
(* Snapshot storage-destination control logic of kots/kotsadm:             *)
(*   - the NFS-backed self-hosted object store (DeployNFSMinio) and its    *)
(*     callers: the admin-console handlers ConfigureNFSSnapshots and       *)
(*     UpdateGlobalSnapshotSettings, the CLI command BackupConfigureNFSCmd *)
(*     and the web client SnapshotStorageDestination / SnapshotSettings;   *)
(*   - the snapshot schedule handlers SaveSnapshotConfig and               *)
(*     SaveInstanceSnapshotConfig over the record store.                   *)
(***************************************************************************)
EXTENDS Integers, FiniteSets, Sequences, TLC

\* ---------------------------------------------------------------- bounds
\* NFS shares (a server and an export path) a request can name
NumShares == 2
\* generations of the minio credentials (a forced reset issues a new one)
MaxCredGen == 2
\* days the clock runs through
MaxTime == 2
\* ids a scheduled snapshot of a workload can have
MaxSnapshots == 2
\* changes of the storage destination form (by the user, by new props)
MaxEdits == 2
\* status reads a wait for a workload makes before its timeout has elapsed
MaxPolls == 2
\* deployments in the engine's namespace that carry one of the engine's labels
MaxDeployments == 2

VARIABLES
    \* cluster state
    nfsRecorded,      \* NFSConfig the self-hosted backend is deployed against
    nfsCreds,         \* generation of the backend's credentials, 0: none
    veleroInstalled,  \* a BackupStorageLocation named "default" exists
    globalStore,      \* provider of the engine's storage location
    \* the request of each browser session and the goroutine serving it
    hpc,              \* position: idle, sent, deploy, engine, responded
    req,              \* the request body
    dec,              \* DeployNFSMinio's decision, held between check and apply
    nfsErr,           \* err of configureNFSMinio in the handler
    resp,             \* the response written
    web,              \* SnapshotSettings / SnapshotStorageDestination state
    \* the CLI command
    cli,
    \* the record store
    snapshotSchedule, \* SnapshotSchedule of each workload, "" when off
    snapshotTTL,      \* SnapshotTTL of each workload in hours, 0 when unset
    pending,          \* the scheduled snapshots that have not been started
    now,              \* the clock, in days
    save,             \* the save request of each session and its handler
    history,          \* history variable: what the save requests did so far
    \* the storage destination form (SnapshotStorageDestination)
    snapshotSettings, \* props.snapshotSettings: the persisted store as loaded
    form,             \* the component's state
    edits,            \* changes of the form since it was mounted
    payload,          \* the payload handed to updateSettings, in flight
    \* a request followed through its calls to the cluster
    run,              \* the request: position, locals, answer
    calls,            \* history variable: the calls it made, with their errors
    \* the engine's workloads and the operation that rewrites their images
    kube,             \* the objects of the engine's namespace
    op,               \* InstallVelero / ConfigureVeleroImages: position, locals
    \* DetectVelero's loop over the deployments of the engine's namespace
    scan,             \* the deployments, the loop's position, VeleroStatus.Plugins
    \* browser sessions that are open
    clients,
    \* number of requests the server (and CLI) may run at the same time
    maxActive

\* the deployment a specification is about
setup == <<clients, maxActive>>

nfsVars == <<nfsRecorded, nfsCreds, veleroInstalled, globalStore,
             hpc, req, dec, nfsErr, resp, web, cli>>

schedVars == <<snapshotSchedule, snapshotTTL, pending, now, save, history>>

formVars == <<snapshotSettings, form, edits, payload>>

engineVars == <<run, calls>>

imageVars == <<kube, op>>

vars == <<nfsVars, schedVars, formVars, engineVars, imageVars, setup, scan>>

\* ------------------------------------------------------------ data model

Sessions == {"w1", "w2"}

\* types.NFSConfig{Path, Server}; the zero value stands for "no deployment"
\* share 1 and share 2 are two paths of one server, share 3 is on another
Share(k) == [server |-> (k + 1) \div 2, path |-> 2 - (k % 2)]
NFSConfigs == {Share(k) : k \in 1..NumShares}
NoNFS == [server |-> 0, path |-> 0]

NoRequest == [handler |-> "", hasNFS |-> FALSE, nfs |-> NoNFS, forceReset |-> FALSE, provider |-> ""]
NoResponse == [status |-> 0, success |-> FALSE, conflict |-> FALSE, isMinimalRBACEnabled |-> FALSE,
               store |-> ""]

\* ------------------------------------------------- DeployNFSMinio (§4.2)

\* The decision of Reconcile(desired, forceReset) against the recorded share.
DeployNFSMinioDecision(recorded, deployOptions) ==
    IF recorded = NoNFS THEN "create"
    ELSE IF recorded = deployOptions.NFSConfig THEN "noop"
    ELSE IF ~deployOptions.ForceReset THEN "ResetNFSError"
    ELSE "reset"

\* The share recorded once the decision has been applied.
DeployNFSMinioRecorded(decision, recorded, deployOptions) ==
    IF decision \in {"create", "reset"} THEN deployOptions.NFSConfig ELSE recorded

\* The credentials once the decision has been applied: generated on a fresh
\* deployment, kept when nothing changes, replaced by a forced reset.
DeployNFSMinioCreds(decision, creds) ==
    CASE decision = "create" -> IF creds = 0 THEN 1 ELSE creds
      [] decision = "reset" -> creds + 1
      [] OTHER -> creds

\* ------------------------------------------------------- handler helpers

\* mutant: the handler asks for a reset whatever the request says
configureNFSMinio_AlwaysForce(opts) ==
    [ForceReset |-> TRUE,
     NFSConfig |-> [server |-> opts.nfs.server, path |-> opts.nfs.path]]

\* mutant: the handler leaves the export path out of the deploy options
configureNFSMinio_DropPath(opts) ==
    [ForceReset |-> opts.forceReset,
     NFSConfig |-> [server |-> opts.nfs.server, path |-> 0]]

\* configureNFSMinio: the deploy options built from the request's NFSOptions
configureNFSMinio(opts) ==
    [ForceReset |-> opts.forceReset,
     NFSConfig |-> [server |-> opts.nfs.server, path |-> opts.nfs.path]]

\* mutant: the handler answers every failure of configureNFSMinio with 500
ConfigureNFSSnapshotsNFSError_Always500(err) ==
    [NoResponse EXCEPT !.status = 500]

\* ConfigureNFSSnapshots, error branch of configureNFSMinio
ConfigureNFSSnapshotsNFSError(err) ==
    IF err = "ResetNFSError"
    THEN [NoResponse EXCEPT !.status = 409, !.conflict = TRUE]
    ELSE [NoResponse EXCEPT !.status = 500]

\* UpdateGlobalSnapshotSettings, error branch of configureNFSMinio
UpdateGlobalSnapshotSettingsNFSError(err) ==
    IF err = "ResetNFSError"
    THEN [NoResponse EXCEPT !.status = 409, !.conflict = TRUE]
    ELSE [NoResponse EXCEPT !.status = 500]

NFSErrorResponse(handler, err) ==
    IF handler = "ConfigureNFSSnapshots"
    THEN ConfigureNFSSnapshotsNFSError(err)
    ELSE UpdateGlobalSnapshotSettingsNFSError(err)

\* handler goroutines inside DeployNFSMinio (between its check and its return)
InDeploy == {s \in Sessions : hpc[s] = "deploy"}

\* processes running a handler or a CLI step against the cluster
InFlight == {s \in Sessions : hpc[s] \in {"deploy", "engine"}}
            \cup (IF cli.pc \in {"deploy", "engine"} THEN {"cli"} ELSE {})

\* forced resets decided and not yet applied
PendingResets == Cardinality({s \in Sessions : hpc[s] = "deploy" /\ dec[s] = "reset"})
                 + (IF cli.pc = "deploy" /\ cli.dec = "reset" THEN 1 ELSE 0)

CanEnter == Cardinality(InFlight) < maxActive

\* The handler writes its answer and returns. Of the request, the client's
\* callback reads which fetch it answers and, after a 409, the NFS fields the
\* form still shows; nothing else of it is kept.
Respond(s, r) ==
    /\ resp' = [resp EXCEPT ![s] = r]
    /\ hpc' = [hpc EXCEPT ![s] = "responded"]
    /\ dec' = [dec EXCEPT ![s] = ""]
    /\ req' = [req EXCEPT ![s] = IF r.status = 409 THEN req[s]
                                 ELSE [NoRequest EXCEPT !.handler = req[s].handler]]

\* The call of configureNFSMinio from a handler, up to DeployNFSMinio's
\* decision: an error answers the request, otherwise the goroutine is inside
\* DeployNFSMinio with the decision taken.
EnterDeploy(s) ==
    LET deployOptions == configureNFSMinio(req[s])
        decision == DeployNFSMinioDecision(nfsRecorded, deployOptions)
    IN \/ \* GetKotsadmOptionsFromCluster or the mount check fails
          /\ nfsErr' = [nfsErr EXCEPT ![s] = "other"]
          /\ Respond(s, NFSErrorResponse(req[s].handler, "other"))
       \/ /\ decision = "ResetNFSError"
          /\ nfsErr' = [nfsErr EXCEPT ![s] = "ResetNFSError"]
          /\ Respond(s, NFSErrorResponse(req[s].handler, "ResetNFSError"))
       \/ /\ decision # "ResetNFSError"
          /\ decision = "reset" => nfsCreds + PendingResets < MaxCredGen
          /\ dec' = [dec EXCEPT ![s] = decision]
          /\ nfsErr' = [nfsErr EXCEPT ![s] = "nil"]
          /\ hpc' = [hpc EXCEPT ![s] = "deploy"]
          /\ UNCHANGED <<resp, req>>

\* ------------------------------------------------------------- handlers

ConfigureNFSSnapshots(s) ==
    /\ hpc[s] = "sent"
    /\ req[s].handler = "ConfigureNFSSnapshots"
    /\ CanEnter
    /\ \/ \* k8s.Clientset fails
          /\ Respond(s, [NoResponse EXCEPT !.status = 500])
          /\ UNCHANGED nfsErr
       \/ \* IsKotsadmClusterScoped answers false: minimal RBAC
          /\ Respond(s, [NoResponse EXCEPT !.status = 200, !.isMinimalRBACEnabled = TRUE])
          /\ UNCHANGED nfsErr
       \/ EnterDeploy(s)
    /\ UNCHANGED <<nfsRecorded, nfsCreds, veleroInstalled, globalStore,
                   web, cli, setup, scan, schedVars, formVars, engineVars, imageVars>>

\* mutant: the handler does not look at the status DetectVelero returned
UpdateGlobalSnapshotSettings_StatusIgnored(s) ==
    /\ hpc[s] = "sent"
    /\ req[s].handler = "UpdateGlobalSnapshotSettings"
    /\ CanEnter
    /\ \/ /\ req[s].hasNFS
          /\ EnterDeploy(s)
       \/ /\ ~req[s].hasNFS
          /\ hpc' = [hpc EXCEPT ![s] = "engine"]
          /\ UNCHANGED <<dec, nfsErr, resp, req>>
    /\ UNCHANGED <<nfsRecorded, nfsCreds, veleroInstalled, globalStore,
                   web, cli, setup, scan, schedVars, formVars, engineVars, imageVars>>

UpdateGlobalSnapshotSettings(s) ==
    /\ hpc[s] = "sent"
    /\ req[s].handler = "UpdateGlobalSnapshotSettings"
    /\ CanEnter
    /\ \/ \* DetectVelero fails
          /\ Respond(s, [NoResponse EXCEPT !.status = 500])
          /\ UNCHANGED nfsErr
       \/ \* DetectVelero finds no engine
          /\ ~veleroInstalled
          /\ Respond(s, [NoResponse EXCEPT !.status = 200])
          /\ UNCHANGED nfsErr
       \/ /\ veleroInstalled
          /\ req[s].hasNFS
          /\ EnterDeploy(s)
       \/ /\ veleroInstalled
          /\ ~req[s].hasNFS
          /\ hpc' = [hpc EXCEPT ![s] = "engine"]
          /\ UNCHANGED <<dec, nfsErr, resp, req>>
    /\ UNCHANGED <<nfsRecorded, nfsCreds, veleroInstalled, globalStore,
                   web, cli, setup, scan, schedVars, formVars, engineVars, imageVars>>

\* mutant: the handler goes on to the engine after a failed reconcile
DeployNFSMinio_ErrorIgnored(s) ==
    /\ hpc[s] = "deploy"
    /\ \/ /\ nfsErr' = [nfsErr EXCEPT ![s] = "other"]
          /\ hpc' = [hpc EXCEPT ![s] = "engine"]
          /\ UNCHANGED <<dec, resp, req, nfsRecorded, nfsCreds>>
       \/ /\ nfsRecorded' = DeployNFSMinioRecorded(dec[s], nfsRecorded, configureNFSMinio(req[s]))
          /\ nfsCreds' = DeployNFSMinioCreds(dec[s], nfsCreds)
          /\ hpc' = [hpc EXCEPT ![s] = "engine"]
          /\ UNCHANGED <<dec, nfsErr, resp, req>>
    /\ UNCHANGED <<veleroInstalled, globalStore, web, cli, setup, scan, schedVars, formVars, engineVars, imageVars>>

\* DeployNFSMinio applies its decision and returns to the handler
DeployNFSMinio(s) ==
    /\ hpc[s] = "deploy"
    /\ \/ \* a cluster call fails before anything is changed
          /\ nfsErr' = [nfsErr EXCEPT ![s] = "other"]
          /\ Respond(s, NFSErrorResponse(req[s].handler, "other"))
          /\ UNCHANGED <<nfsRecorded, nfsCreds>>
       \/ /\ nfsRecorded' = DeployNFSMinioRecorded(dec[s], nfsRecorded, configureNFSMinio(req[s]))
          /\ nfsCreds' = DeployNFSMinioCreds(dec[s], nfsCreds)
          /\ hpc' = [hpc EXCEPT ![s] = "engine"]
          /\ UNCHANGED <<dec, nfsErr, resp, req>>
    /\ UNCHANGED <<veleroInstalled, globalStore, web, cli, setup, scan, schedVars, formVars, engineVars, imageVars>>

\* ConfigureNFSSnapshots after the backend reconcile: install or reconfigure
ConfigureNFSSnapshotsVelero(s) ==
    /\ hpc[s] = "engine"
    /\ req[s].handler = "ConfigureNFSSnapshots"
    /\ \/ \* a step of the path fails
          /\ Respond(s, [NoResponse EXCEPT !.status = 500])
          /\ UNCHANGED <<veleroInstalled, globalStore>>
       \/ \* no engine namespace: InstallVeleroFromStoreNFS
          /\ ~veleroInstalled
          /\ veleroInstalled' = TRUE
          /\ globalStore' = "nfs"
          /\ Respond(s, [NoResponse EXCEPT !.status = 200, !.success = TRUE])
       \/ \* engine found: ConfigureVeleroImages, ConfigureStore, WaitForVeleroReady
          /\ veleroInstalled
          /\ globalStore' = "nfs"
          /\ \/ Respond(s, [NoResponse EXCEPT !.status = 200, !.success = TRUE])
             \/ \* the store is configured and WaitForVeleroReady fails
                Respond(s, [NoResponse EXCEPT !.status = 500])
          /\ UNCHANGED veleroInstalled
    /\ UNCHANGED <<nfsRecorded, nfsCreds, nfsErr, web, cli, setup, scan, schedVars, formVars, engineVars, imageVars>>

\* UpdateGlobalSnapshotSettings after the backend reconcile: ConfigureStore
UpdateGlobalSnapshotSettingsStore(s) ==
    /\ hpc[s] = "engine"
    /\ req[s].handler = "UpdateGlobalSnapshotSettings"
    /\ \/ \* ConfigureStore fails: InvalidStoreDataError, or another error
          /\ \E status \in {400, 500} : Respond(s, [NoResponse EXCEPT !.status = status])
          /\ UNCHANGED globalStore
       \/ \* the store is configured and GetCurrentNFSConfig fails
          /\ req[s].hasNFS
          /\ globalStore' = "nfs"
          /\ Respond(s, [NoResponse EXCEPT !.status = 500])
       \/ \* response.Store = updatedStore, response.Success = true
          /\ globalStore' = IF req[s].hasNFS THEN "nfs" ELSE req[s].provider
          /\ Respond(s, [NoResponse EXCEPT !.status = 200, !.success = TRUE,
                                           !.store = globalStore'])
    /\ UNCHANGED <<nfsRecorded, nfsCreds, veleroInstalled,
                   nfsErr, web, cli, setup, scan, schedVars, formVars, engineVars, imageVars>>

\* ----------------------------------------------------------- web client
\* The NFS fields of the form are held in req[s] from the click that sends
\* them until the request is answered (and, after a 409, until the warning
\* dialog is closed): the forced re-submission reads the same fields.

NFSRequest(handler, c, forceReset) ==
    [handler |-> handler, hasNFS |-> TRUE, nfs |-> c, forceReset |-> forceReset, provider |-> ""]

\* mutant: the settings form always asks for a reset
snapshotProviderNFS_AlwaysForce(c, forceReset) ==
    NFSRequest("UpdateGlobalSnapshotSettings", c, TRUE)

\* snapshotProviderNFS(forceReset): the payload of PUT /snapshots/settings
snapshotProviderNFS(c, forceReset) ==
    NFSRequest("UpdateGlobalSnapshotSettings", c, forceReset)

\* SnapshotSettings.configureNFS(path, server, forceReset): PUT /snapshots/nfs
configureNFS(c, forceReset) ==
    NFSRequest("ConfigureNFSSnapshots", c, forceReset)

Send(s, r) ==
    /\ req' = [req EXCEPT ![s] = r]
    /\ hpc' = [hpc EXCEPT ![s] = "sent"]

WebIdle(s) == hpc[s] = "idle" /\ ~web[s].showResetNFSWarningModal

toggleConfigureNFSModal(s) ==
    /\ s \in clients
    /\ WebIdle(s)
    /\ web' = [web EXCEPT ![s].showConfigureNFSModal = ~web[s].showConfigureNFSModal]
    /\ UNCHANGED <<nfsRecorded, nfsCreds, veleroInstalled, globalStore,
                   hpc, req, dec, nfsErr, resp, cli, setup, scan, schedVars, formVars, engineVars, imageVars>>

\* onSubmit with the nfs destination selected, or with a cloud provider
onSubmit(s) ==
    /\ s \in clients
    /\ WebIdle(s)
    /\ ~web[s].showConfigureNFSModal
    /\ \/ \E c \in NFSConfigs : Send(s, snapshotProviderNFS(c, FALSE))
       \/ Send(s, [NoRequest EXCEPT !.handler = "UpdateGlobalSnapshotSettings", !.provider = "aws"])
    /\ UNCHANGED <<nfsRecorded, nfsCreds, veleroInstalled, globalStore,
                   dec, nfsErr, resp, web, cli, setup, scan, schedVars, formVars, engineVars, imageVars>>

\* the Configure button of the Configure NFS dialog
configureNFSClick(s) ==
    /\ s \in clients
    /\ WebIdle(s)
    /\ web[s].showConfigureNFSModal
    /\ \E c \in NFSConfigs : Send(s, configureNFS(c, FALSE))
    /\ UNCHANGED <<nfsRecorded, nfsCreds, veleroInstalled, globalStore,
                   dec, nfsErr, resp, web, cli, setup, scan, schedVars, formVars, engineVars, imageVars>>

\* "Yes" in the reset warning dialog, settings form
forceSnapshotProviderNFS(s) ==
    /\ hpc[s] = "idle"
    /\ web[s].showResetNFSWarningModal
    /\ ~web[s].showConfigureNFSModal
    /\ web' = [web EXCEPT ![s].showResetNFSWarningModal = FALSE]
    /\ Send(s, snapshotProviderNFS(req[s].nfs, TRUE))
    /\ UNCHANGED <<nfsRecorded, nfsCreds, veleroInstalled, globalStore,
                   dec, nfsErr, resp, cli, setup, scan, schedVars, formVars, engineVars, imageVars>>

\* "Yes" in the reset warning dialog, Configure NFS dialog
forceConfigureNFS(s) ==
    /\ hpc[s] = "idle"
    /\ web[s].showResetNFSWarningModal
    /\ web[s].showConfigureNFSModal
    /\ web' = [web EXCEPT ![s].showResetNFSWarningModal = FALSE]
    /\ Send(s, configureNFS(req[s].nfs, TRUE))
    /\ UNCHANGED <<nfsRecorded, nfsCreds, veleroInstalled, globalStore,
                   dec, nfsErr, resp, cli, setup, scan, schedVars, formVars, engineVars, imageVars>>

\* "No" in the reset warning dialog
hideResetNFSWarningModal(s) ==
    /\ hpc[s] = "idle"
    /\ web[s].showResetNFSWarningModal
    /\ web' = [web EXCEPT ![s].showResetNFSWarningModal = FALSE]
    /\ req' = [req EXCEPT ![s] = NoRequest]
    /\ UNCHANGED <<nfsRecorded, nfsCreds, veleroInstalled, globalStore,
                   hpc, dec, nfsErr, resp, cli, setup, scan, schedVars, formVars, engineVars, imageVars>>

\* the .then of updateSettings' fetch
updateSettingsResponse(s) ==
    /\ hpc[s] = "responded"
    /\ req[s].handler = "UpdateGlobalSnapshotSettings"
    /\ IF resp[s].status = 409
       THEN /\ web' = [web EXCEPT ![s].showResetNFSWarningModal = TRUE]
            /\ UNCHANGED req
       ELSE /\ req' = [req EXCEPT ![s] = NoRequest]
            /\ UNCHANGED web
    /\ hpc' = [hpc EXCEPT ![s] = "idle"]
    /\ resp' = [resp EXCEPT ![s] = NoResponse]
    /\ nfsErr' = [nfsErr EXCEPT ![s] = "nil"]
    /\ UNCHANGED <<nfsRecorded, nfsCreds, veleroInstalled, globalStore, dec, cli, setup, scan, schedVars, formVars, engineVars, imageVars>>

\* the .then of configureNFS' fetch
configureNFSResponse(s) ==
    /\ hpc[s] = "responded"
    /\ req[s].handler = "ConfigureNFSSnapshots"
    /\ IF resp[s].status = 409
       THEN /\ web' = [web EXCEPT ![s].showResetNFSWarningModal = TRUE]
            /\ UNCHANGED req
       ELSE /\ req' = [req EXCEPT ![s] = NoRequest]
            /\ IF resp[s].status = 200 /\ (resp[s].success \/ resp[s].isMinimalRBACEnabled)
               THEN web' = [web EXCEPT ![s].showConfigureNFSModal = FALSE]
               ELSE UNCHANGED web
    /\ hpc' = [hpc EXCEPT ![s] = "idle"]
    /\ resp' = [resp EXCEPT ![s] = NoResponse]
    /\ nfsErr' = [nfsErr EXCEPT ![s] = "nil"]
    /\ UNCHANGED <<nfsRecorded, nfsCreds, veleroInstalled, globalStore, dec, cli, setup, scan, schedVars, formVars, engineVars, imageVars>>

\* ------------------------------------------------------------------ CLI

NoOptions == [ForceReset |-> FALSE, NFSConfig |-> NoNFS]
CLIIdle == [pc |-> "idle", deployOptions |-> NoOptions, dec |-> "", answer |-> "", conflict |-> FALSE]

\* deployOptions of BackupConfigureNFSCmd: ForceReset is left unset
BackupConfigureNFSCmdOptions(c) ==
    [ForceReset |-> FALSE, NFSConfig |-> [server |-> c.server, path |-> c.path]]

\* mutant: the command deploys again without setting ForceReset
BackupConfigureNFSCmdForce_Unset(deployOptions) == deployOptions

\* deployOptions.ForceReset = true, after the prompt returned true
BackupConfigureNFSCmdForce(deployOptions) ==
    [deployOptions EXCEPT !.ForceReset = TRUE]

\* the command returns (nil or an error) or exits (os.Exit at the prompt);
\* of its outcome only an error caused by a ResetNFSError is kept apart
CLIExit == cli' = CLIIdle
CLIExitConflict == cli' = [CLIIdle EXCEPT !.conflict = TRUE]

\* the command is inside DeployNFSMinio with the decision taken
CLIInDeploy(deployOptions, decision) ==
    /\ decision = "reset" => nfsCreds + PendingResets < MaxCredGen
    /\ cli' = [cli EXCEPT !.pc = "deploy", !.deployOptions = deployOptions, !.dec = decision,
                          !.conflict = FALSE]

\* the command up to the decision of its first DeployNFSMinio
BackupConfigureNFSCmd ==
    /\ cli.pc = "idle"
    /\ CanEnter
    /\ \E c \in NFSConfigs :
         LET deployOptions == BackupConfigureNFSCmdOptions(c)
             decision == DeployNFSMinioDecision(nfsRecorded, deployOptions)
         IN \/ CLIExit
            \/ /\ decision = "ResetNFSError"
               /\ cli' = [CLIIdle EXCEPT !.pc = "prompt", !.deployOptions = deployOptions]
            \/ /\ decision # "ResetNFSError"
               /\ CLIInDeploy(deployOptions, decision)
    /\ UNCHANGED <<nfsRecorded, nfsCreds, veleroInstalled, globalStore,
                   hpc, req, dec, nfsErr, resp, web, setup, scan, schedVars, formVars, engineVars, imageVars>>

\* promptForNFSReset: "n" and an interrupt leave the command, anything but
\* "y" asks again, "y" returns true
promptForNFSReset ==
    /\ cli.pc = "prompt"
    /\ \E answer \in {"y", "n", "interrupt", "other"} :
         CASE answer \in {"n", "interrupt"} ->
                CLIExit
           [] answer = "other" ->
                UNCHANGED cli
           [] answer = "y" ->
                cli' = [cli EXCEPT !.answer = answer, !.pc = "force"]
    /\ UNCHANGED <<nfsRecorded, nfsCreds, veleroInstalled, globalStore,
                   hpc, req, dec, nfsErr, resp, web, setup, scan, schedVars, formVars, engineVars, imageVars>>

\* the command deploys again with ForceReset set, up to the decision
BackupConfigureNFSCmdRedeploy ==
    /\ cli.pc = "force"
    /\ CanEnter
    /\ LET deployOptions == BackupConfigureNFSCmdForce(cli.deployOptions)
           decision == DeployNFSMinioDecision(nfsRecorded, deployOptions)
       IN \/ CLIExit
          \/ /\ decision = "ResetNFSError"
             /\ CLIExitConflict
          \/ /\ decision # "ResetNFSError"
             /\ CLIInDeploy(deployOptions, decision)
    /\ UNCHANGED <<nfsRecorded, nfsCreds, veleroInstalled, globalStore,
                   hpc, req, dec, nfsErr, resp, web, setup, scan, schedVars, formVars, engineVars, imageVars>>

\* DeployNFSMinio applies its decision and returns to the command
CLIDeployNFSMinio ==
    /\ cli.pc = "deploy"
    /\ \/ /\ CLIExit
          /\ UNCHANGED <<nfsRecorded, nfsCreds>>
       \/ /\ nfsRecorded' = DeployNFSMinioRecorded(cli.dec, nfsRecorded, cli.deployOptions)
          /\ nfsCreds' = DeployNFSMinioCreds(cli.dec, nfsCreds)
          /\ cli' = [CLIIdle EXCEPT !.pc = "engine"]
    /\ UNCHANGED <<veleroInstalled, globalStore,
                   hpc, req, dec, nfsErr, resp, web, setup, scan, schedVars, formVars, engineVars, imageVars>>

\* the rest of the command: install the engine, or reconfigure its store
BackupConfigureNFSCmdVelero ==
    /\ cli.pc = "engine"
    /\ \/ /\ CLIExit
          /\ UNCHANGED <<veleroInstalled, globalStore>>
       \/ /\ ~veleroInstalled
          /\ veleroInstalled' = TRUE
          /\ globalStore' = "nfs"
          /\ CLIExit
       \/ /\ veleroInstalled
          /\ globalStore' = "nfs"
          /\ CLIExit
          /\ UNCHANGED veleroInstalled
    /\ UNCHANGED <<nfsRecorded, nfsCreds,
                   hpc, req, dec, nfsErr, resp, web, setup, scan, schedVars, formVars, engineVars, imageVars>>

\* ------------------------------------------------------ snapshot schedule

\* the workloads of the record store: the applications, and the clusters in
\* the order ListClusters returns them
Apps == {"app1"}
Clusters == <<"this-cluster">>
Workloads == Apps \cup {Clusters[i] : i \in 1..Len(Clusters)}

\* cron expressions a request can carry: every Monday at 00:00, every day at
\* 00:00, every 30th of February at 00:00, a string that is no expression, and
\* the empty string
Weekly == "0 0 * * MON"
Daily == "0 0 * * *"
Never == "0 0 30 2 *"
Schedules == {Weekly, Daily, Never, "not-a-cron", ""}

\* the fields of an expression, split at the blanks
CronFields(expr) ==
    CASE expr = Weekly -> <<"0", "0", "*", "*", "MON">>
      [] expr = Daily -> <<"0", "0", "*", "*", "*">>
      [] expr = Never -> <<"0", "0", "30", "2", "*">>
      [] expr = "" -> <<>>
      [] OTHER -> <<expr>>

\* the values a field may take: minute, hour, day of month, month, day of week
CronFieldValues(i) ==
    CASE i = 1 -> {"*", "0"}
      [] i = 2 -> {"*", "0"}
      [] i = 3 -> {"*", "30"}
      [] i = 4 -> {"*", "2"}
      [] i = 5 -> {"*", "MON"}

\* mutant: every expression that is not empty parses
CronParserParse_AnyText(expr) == expr # ""

\* cron.NewParser(Minute | Hour | Dom | Month | Dow | Descriptor).Parse: nil
\* error for five fields, each in the range of its position
CronParserParse(expr) ==
    LET fields == CronFields(expr)
    IN /\ Len(fields) = 5
       /\ \A i \in 1..5 : fields[i] \in CronFieldValues(i)

\* cron.ParseStandard: the same parser
CronParseStandard(expr) ==
    LET fields == CronFields(expr)
    IN /\ Len(fields) = 5
       /\ \A i \in 1..5 : fields[i] \in CronFieldValues(i)

\* the days at whose 00:00 a parsed expression fires; day 0 is a Monday, and
\* no February has a 30th
CronMatches(expr, d) ==
    LET fields == CronFields(expr)
    IN /\ ~(fields[3] = "30" /\ fields[4] = "2")
       /\ fields[5] = "MON" => d % 7 = 0

\* time.Time{}: what Schedule.Next returns when it finds no time
ZeroTime == 0
\* days Schedule.Next looks ahead (five years in the library)
CronSearchDays == 7

\* Schedule.Next(t): the first time after t at which the expression fires
CronNext(expr, t) ==
    LET days == {d \in (t + 1)..(t + CronSearchDays) : CronMatches(expr, d)}
    IN IF days = {} THEN ZeroTime
       ELSE CHOOSE d \in days : \A e \in days : d <= e

\* strconv.ParseInt of the retention's quantity, -1 for a failure
Atoi(v) ==
    CASE v = "0" -> 0
      [] v = "1" -> 1
      [] v = "2" -> 2
      [] OTHER -> -1

\* hours of a retention unit, 0 for an unknown unit
UnitHours(u) ==
    CASE u = "week" -> 168
      [] u = "month" -> 720
      [] OTHER -> 0

\* mutant: every quantity and unit is taken for a retention
FormatTTL_Lenient(v, u) ==
    [err |-> FALSE, ttl |-> (IF Atoi(v) <= 0 THEN 0 ELSE Atoi(v)) * UnitHours(u)]

\* snapshot.FormatTTL(quantity, unit): the retention as a duration in hours;
\* a quantity that is no positive number and an unknown unit are rejected
FormatTTL(v, u) ==
    IF Atoi(v) <= 0 \/ UnitHours(u) = 0
    THEN [err |-> TRUE, ttl |-> 0]
    ELSE [err |-> FALSE, ttl |-> Atoi(v) * UnitHours(u)]

\* strconv.FormatInt(n, 10) of a quantity
FormatInt(n) == ToString(n)

\* the retention as it is persisted: a duration in hours, "" when unset
DurationString(hours) == IF hours = 0 THEN "" ELSE ToString(hours) \o "h"

\* mutant: the duration is always read in weeks
ParseTTL_Weeks(ttl) ==
    IF ttl <= 0 THEN [err |-> TRUE, Quantity |-> 0, Unit |-> ""]
    ELSE [err |-> FALSE, Quantity |-> ttl \div 168, Unit |-> "week"]

\* snapshot.ParseTTL(duration): quantity and unit of a persisted retention,
\* in the largest unit that divides it
ParseTTL(ttl) ==
    IF ttl <= 0 THEN [err |-> TRUE, Quantity |-> 0, Unit |-> ""]
    ELSE IF ttl % 720 = 0 THEN [err |-> FALSE, Quantity |-> ttl \div 720, Unit |-> "month"]
    ELSE IF ttl % 168 = 0 THEN [err |-> FALSE, Quantity |-> ttl \div 168, Unit |-> "week"]
    ELSE [err |-> FALSE, Quantity |-> ttl, Unit |-> "hour"]

\* the record store (§6)
GetApp(id) == [ID |-> id, SnapshotSchedule |-> snapshotSchedule[id], SnapshotTTL |-> snapshotTTL[id]]
SetSnapshotTTL(id, retention) == snapshotTTL' = [snapshotTTL EXCEPT ![id] = retention]
SetSnapshotSchedule(id, schedule) == snapshotSchedule' = [snapshotSchedule EXCEPT ![id] = schedule]
CreateScheduledSnapshot(id, owner, queued) == pending' = pending \cup {[id |-> id, owner |-> owner, at |-> queued]}
DeletePendingScheduledSnapshots(owner) == pending' = {p \in pending : p.owner # owner}

PendingOf(w) == {p \in pending : p.owner = w}

\* rand.String(32): an id no scheduled snapshot of the workload has or had
FreshIds(w) ==
    (1..MaxSnapshots) \ ({p.id : p \in PendingOf(w)}
                         \cup UNION {{p.id : p \in {q \in save[s].before : q.owner = w}} :
                                        s \in DOMAIN save})

\* request bodies of the two save operations
SaveRequests ==
    [inputValue : {"0", "1"}, inputTimeUnit : {"week", "month"},
     schedule : Schedules, autoEnabled : BOOLEAN]

NoWorkload == [ID |-> "", SnapshotSchedule |-> "", SnapshotTTL |-> 0]
\* snapshottypes.SnapshotTTL
NoTTL == [InputValue |-> "", InputTimeUnit |-> "", Converted |-> ""]
SaveIdle ==
    [pc |-> "idle", handler |-> "", schedule |-> "", autoEnabled |-> FALSE,
     inputValue |-> "", inputTimeUnit |-> "", ttl |-> NoTTL,
     app |-> NoWorkload, retention |-> 0, before |-> {}, effects |-> <<>>,
     status |-> 0, success |-> FALSE]

\* the handler has decoded the body and read the workload
SaveStart(handler, body, app) ==
    [SaveIdle EXCEPT !.handler = handler,
                     !.schedule = IF body.autoEnabled THEN body.schedule ELSE "",
                     !.autoEnabled = body.autoEnabled, !.app = app,
                     !.inputValue = body.inputValue,
                     !.inputTimeUnit = body.inputTimeUnit,
                     !.before = PendingOf(app.ID)]

\* the handler writes its answer and returns
SaveAnswer(sl, status, success) ==
    [sl EXCEPT !.pc = "done", !.status = status, !.success = success, !.retention = 0]

SaveInFlight == {s \in Sessions : save[s].pc \notin {"idle", "done"}}

\* History of the store: whether a save request has been answered 500, and
\* for every workload with a scheduled snapshot that has not been started the
\* cron expression of the request that created it ("" when there is none).
\* `created` is the expression of the request creating one in this step.
HistoryAfter(answered500, created) ==
    [failed |-> history.failed \/ answered500,
     under |-> [w \in Workloads |->
                  IF {p \in pending' : p.owner = w} = {} THEN ""
                  ELSE IF {p \in pending' : p.owner = w} \ pending # {} THEN created
                  ELSE history.under[w]]]

\* mutant: auto off is answered without touching the schedule
SaveSnapshotConfigSchedule_SkipDisable(sl) ==
    IF ~sl.autoEnabled THEN SaveAnswer(sl, 200, TRUE)
    ELSE IF ~CronParserParse(sl.schedule) THEN SaveAnswer(sl, 400, FALSE)
    ELSE IF sl.schedule # sl.app.SnapshotSchedule THEN [sl EXCEPT !.pc = "purge"]
    ELSE SaveAnswer(sl, 200, TRUE)

\* mutant: a new schedule is stored without deleting the scheduled snapshots
SaveSnapshotConfigSchedule_NoPurge(sl) ==
    IF ~sl.autoEnabled THEN [sl EXCEPT !.pc = "clear"]
    ELSE IF ~CronParserParse(sl.schedule) THEN SaveAnswer(sl, 400, FALSE)
    ELSE IF sl.schedule # sl.app.SnapshotSchedule THEN [sl EXCEPT !.pc = "set"]
    ELSE SaveAnswer(sl, 200, TRUE)

\* SaveSnapshotConfig from the retention on: the schedule part of the handler
\* as far as it goes without a call of the store
SaveSnapshotConfigSchedule(sl) ==
    IF ~sl.autoEnabled THEN [sl EXCEPT !.pc = "clear"]
    ELSE IF ~CronParserParse(sl.schedule) THEN SaveAnswer(sl, 400, FALSE)
    ELSE IF sl.schedule # sl.app.SnapshotSchedule THEN [sl EXCEPT !.pc = "purge"]
    ELSE SaveAnswer(sl, 200, TRUE)

\* SaveSnapshotConfig, a call of the store at a time; every call may fail
SaveSnapshotConfig(s) ==
    LET sl == save[s]
        failed == save' = [save EXCEPT ![s] = SaveAnswer(sl, 500, FALSE)]
    IN
    /\ UNCHANGED <<now, nfsVars, setup, scan, formVars, engineVars, imageVars>>
    /\ \/ \* decode, GetApp, FormatTTL
          /\ s \in clients
          /\ sl.pc = "idle"
          /\ Cardinality(SaveInFlight) < maxActive
          /\ \E body \in SaveRequests, appId \in Apps :
               LET app == GetApp(appId)
                   retention == FormatTTL(body.inputValue, body.inputTimeUnit)
                   started == SaveStart("SaveSnapshotConfig", body, app)
               IN \/ save' = [save EXCEPT ![s] =
                       SaveAnswer(SaveStart("SaveSnapshotConfig", body, NoWorkload), 500, FALSE)]
                  \/ save' = [save EXCEPT ![s] =
                       IF retention.err THEN SaveAnswer(started, 400, FALSE)
                       ELSE IF app.SnapshotTTL # retention.ttl
                       THEN [started EXCEPT !.pc = "ttl", !.retention = retention.ttl]
                       ELSE SaveSnapshotConfigSchedule(started)]
          /\ UNCHANGED <<snapshotSchedule, snapshotTTL, pending>>
       \/ \* SetSnapshotTTL
          /\ sl.handler = "SaveSnapshotConfig" /\ sl.pc = "ttl"
          /\ \/ failed /\ UNCHANGED snapshotTTL
             \/ /\ SetSnapshotTTL(sl.app.ID, sl.retention)
                /\ save' = [save EXCEPT ![s] = SaveSnapshotConfigSchedule(
                              [sl EXCEPT !.retention = 0,
                                         !.effects = Append(@, "SetSnapshotTTL")])]
          /\ UNCHANGED <<snapshotSchedule, pending>>
       \/ \* auto off: SetSnapshotSchedule(app.ID, "")
          /\ sl.handler = "SaveSnapshotConfig" /\ sl.pc = "clear"
          /\ \/ failed /\ UNCHANGED snapshotSchedule
             \/ /\ SetSnapshotSchedule(sl.app.ID, "")
                /\ save' = [save EXCEPT ![s].pc = "purgeOff",
                                        ![s].effects = Append(@, "SetSnapshotSchedule")]
          /\ UNCHANGED <<snapshotTTL, pending>>
       \/ \* auto off: DeletePendingScheduledSnapshots
          /\ sl.handler = "SaveSnapshotConfig" /\ sl.pc = "purgeOff"
          /\ \/ failed /\ UNCHANGED pending
             \/ /\ DeletePendingScheduledSnapshots(sl.app.ID)
                /\ save' = [save EXCEPT ![s] = SaveAnswer(
                              [sl EXCEPT !.effects = Append(@, "DeletePendingScheduledSnapshots")], 200, TRUE)]
          /\ UNCHANGED <<snapshotSchedule, snapshotTTL>>
       \/ \* new schedule: DeletePendingScheduledSnapshots
          /\ sl.handler = "SaveSnapshotConfig" /\ sl.pc = "purge"
          /\ \/ failed /\ UNCHANGED pending
             \/ /\ DeletePendingScheduledSnapshots(sl.app.ID)
                /\ save' = [save EXCEPT ![s].pc = "set",
                                        ![s].effects = Append(@, "DeletePendingScheduledSnapshots")]
          /\ UNCHANGED <<snapshotSchedule, snapshotTTL>>
       \/ \* new schedule: SetSnapshotSchedule
          /\ sl.handler = "SaveSnapshotConfig" /\ sl.pc = "set"
          /\ \/ failed /\ UNCHANGED snapshotSchedule
             \/ /\ SetSnapshotSchedule(sl.app.ID, sl.schedule)
                /\ save' = [save EXCEPT ![s].pc = "create",
                                        ![s].effects = Append(@, "SetSnapshotSchedule")]
          /\ UNCHANGED <<snapshotTTL, pending>>
       \/ \* new schedule: CreateScheduledSnapshot at the next occurrence
          /\ sl.handler = "SaveSnapshotConfig" /\ sl.pc = "create"
          /\ \/ failed /\ UNCHANGED pending
             \/ \E id \in FreshIds(sl.app.ID) :
                  /\ \A other \in FreshIds(sl.app.ID) : id <= other
                  /\ CreateScheduledSnapshot(id, sl.app.ID, CronNext(sl.schedule, now))
                  /\ save' = [save EXCEPT ![s] = SaveAnswer(
                                [sl EXCEPT !.effects = Append(@, "CreateScheduledSnapshot")], 200, TRUE)]
          /\ UNCHANGED <<snapshotSchedule, snapshotTTL>>
    /\ history' = HistoryAfter(save'[s].pc = "done" /\ save'[s].status = 500, sl.schedule)

\* mutant: every valid schedule is taken for a new one
SaveInstanceSnapshotConfigSchedule_AlwaysNew(sl) ==
    IF ~sl.autoEnabled THEN [sl EXCEPT !.pc = "clear"]
    ELSE IF ~CronParseStandard(sl.schedule) THEN SaveAnswer(sl, 400, FALSE)
    ELSE [sl EXCEPT !.pc = "purge"]

\* SaveInstanceSnapshotConfig from the retention on
SaveInstanceSnapshotConfigSchedule(sl) ==
    IF ~sl.autoEnabled THEN [sl EXCEPT !.pc = "clear"]
    ELSE IF ~CronParseStandard(sl.schedule) THEN SaveAnswer(sl, 400, FALSE)
    ELSE IF sl.schedule # sl.app.SnapshotSchedule THEN [sl EXCEPT !.pc = "purge"]
    ELSE SaveAnswer(sl, 200, TRUE)

\* SaveInstanceSnapshotConfig, a call of the store at a time
SaveInstanceSnapshotConfig(s) ==
    LET sl == save[s]
        failed == save' = [save EXCEPT ![s] = SaveAnswer(sl, 500, FALSE)]
    IN
    /\ UNCHANGED <<now, nfsVars, setup, scan, formVars, engineVars, imageVars>>
    /\ \/ \* decode, ListClusters, FormatTTL
          /\ s \in clients
          /\ sl.pc = "idle"
          /\ Cardinality(SaveInFlight) < maxActive
          /\ \E body \in SaveRequests :
               LET c == GetApp(Clusters[1])
                   retention == FormatTTL(body.inputValue, body.inputTimeUnit)
                   started == SaveStart("SaveInstanceSnapshotConfig", body, c)
               IN \/ save' = [save EXCEPT ![s] =
                       SaveAnswer(SaveStart("SaveInstanceSnapshotConfig", body, NoWorkload), 500, FALSE)]
                  \/ /\ Len(Clusters) # 0
                     /\ save' = [save EXCEPT ![s] =
                          IF retention.err THEN SaveAnswer(started, 400, FALSE)
                          ELSE IF c.SnapshotTTL # retention.ttl
                          THEN [started EXCEPT !.pc = "ttl", !.retention = retention.ttl]
                          ELSE SaveInstanceSnapshotConfigSchedule(started)]
          /\ UNCHANGED <<snapshotSchedule, snapshotTTL, pending>>
       \/ \* SetInstanceSnapshotTTL
          /\ sl.handler = "SaveInstanceSnapshotConfig" /\ sl.pc = "ttl"
          /\ \/ failed /\ UNCHANGED snapshotTTL
             \/ /\ SetSnapshotTTL(sl.app.ID, sl.retention)
                /\ save' = [save EXCEPT ![s] = SaveInstanceSnapshotConfigSchedule(
                              [sl EXCEPT !.retention = 0,
                                         !.effects = Append(@, "SetInstanceSnapshotTTL")])]
          /\ UNCHANGED <<snapshotSchedule, pending>>
       \/ \* auto off: SetInstanceSnapshotSchedule(c.ClusterID, "")
          /\ sl.handler = "SaveInstanceSnapshotConfig" /\ sl.pc = "clear"
          /\ \/ failed /\ UNCHANGED snapshotSchedule
             \/ /\ SetSnapshotSchedule(sl.app.ID, "")
                /\ save' = [save EXCEPT ![s].pc = "purgeOff",
                                        ![s].effects = Append(@, "SetInstanceSnapshotSchedule")]
          /\ UNCHANGED <<snapshotTTL, pending>>
       \/ \* auto off: DeletePendingScheduledInstanceSnapshots
          /\ sl.handler = "SaveInstanceSnapshotConfig" /\ sl.pc = "purgeOff"
          /\ \/ failed /\ UNCHANGED pending
             \/ /\ DeletePendingScheduledSnapshots(sl.app.ID)
                /\ save' = [save EXCEPT ![s] = SaveAnswer(
                              [sl EXCEPT !.effects = Append(@, "DeletePendingScheduledInstanceSnapshots")], 200, TRUE)]
          /\ UNCHANGED <<snapshotSchedule, snapshotTTL>>
       \/ \* new schedule: DeletePendingScheduledInstanceSnapshots
          /\ sl.handler = "SaveInstanceSnapshotConfig" /\ sl.pc = "purge"
          /\ \/ failed /\ UNCHANGED pending
             \/ /\ DeletePendingScheduledSnapshots(sl.app.ID)
                /\ save' = [save EXCEPT ![s].pc = "set",
                                        ![s].effects = Append(@, "DeletePendingScheduledInstanceSnapshots")]
          /\ UNCHANGED <<snapshotSchedule, snapshotTTL>>
       \/ \* new schedule: SetInstanceSnapshotSchedule
          /\ sl.handler = "SaveInstanceSnapshotConfig" /\ sl.pc = "set"
          /\ \/ failed /\ UNCHANGED snapshotSchedule
             \/ /\ SetSnapshotSchedule(sl.app.ID, sl.schedule)
                /\ save' = [save EXCEPT ![s].pc = "create",
                                        ![s].effects = Append(@, "SetInstanceSnapshotSchedule")]
          /\ UNCHANGED <<snapshotTTL, pending>>
       \/ \* new schedule: CreateScheduledInstanceSnapshot at the next occurrence
          /\ sl.handler = "SaveInstanceSnapshotConfig" /\ sl.pc = "create"
          /\ \/ failed /\ UNCHANGED pending
             \/ \E id \in FreshIds(sl.app.ID) :
                  /\ \A other \in FreshIds(sl.app.ID) : id <= other
                  /\ CreateScheduledSnapshot(id, sl.app.ID, CronNext(sl.schedule, now))
                  /\ save' = [save EXCEPT ![s] = SaveAnswer(
                                [sl EXCEPT !.effects = Append(@, "CreateScheduledInstanceSnapshot")], 200, TRUE)]
          /\ UNCHANGED <<snapshotSchedule, snapshotTTL>>
    /\ history' = HistoryAfter(save'[s].pc = "done" /\ save'[s].status = 500, sl.schedule)

\* the client has read the answer of its save request
SaveResponse(s) ==
    /\ save[s].pc = "done"
    /\ save' = [save EXCEPT ![s] = SaveIdle]
    /\ UNCHANGED <<snapshotSchedule, snapshotTTL, pending, now, history, nfsVars, setup, scan, formVars, engineVars, imageVars>>

\* mutant: automatic snapshots are reported as enabled
SnapshotConfig_AutoOn(workload) ==
    [SaveIdle EXCEPT
       !.pc = "done", !.status = 200, !.app = workload,
       !.ttl = [InputValue |-> "1", InputTimeUnit |-> "month", Converted |-> "720h"],
       !.schedule = "0 0 * * MON",
       !.autoEnabled = TRUE]

\* the body GetSnapshotConfig and GetInstanceSnapshotConfig answer for a
\* workload as stored; status 500 without a body if its retention does not parse
SnapshotConfig(workload) ==
    LET parsedTTL == ParseTTL(workload.SnapshotTTL)
    IN IF workload.SnapshotTTL # 0 /\ parsedTTL.err
       THEN [SaveIdle EXCEPT !.pc = "done", !.status = 500]
       ELSE [SaveIdle EXCEPT
               !.pc = "done", !.status = 200, !.app = workload,
               !.ttl = IF workload.SnapshotTTL # 0
                       THEN [InputValue |-> FormatInt(parsedTTL.Quantity),
                             InputTimeUnit |-> parsedTTL.Unit,
                             Converted |-> DurationString(workload.SnapshotTTL)]
                       ELSE [InputValue |-> "1", InputTimeUnit |-> "month",
                             Converted |-> "720h"],
               !.schedule = IF workload.SnapshotSchedule # ""
                            THEN workload.SnapshotSchedule ELSE "0 0 * * MON",
               !.autoEnabled = (workload.SnapshotSchedule # "")]

\* GetSnapshotConfig: the application of the slug, then its configuration
GetSnapshotConfig(s) ==
    /\ s \in clients
    /\ save[s].pc = "idle"
    /\ Cardinality(SaveInFlight) < maxActive
    /\ \E appSlug \in Apps :
         \/ save' = [save EXCEPT ![s] = [SaveIdle EXCEPT !.pc = "done", !.status = 500,
                                                         !.handler = "GetSnapshotConfig"]]
         \/ save' = [save EXCEPT ![s] = [SnapshotConfig(GetApp(appSlug)) EXCEPT
                                           !.handler = "GetSnapshotConfig"]]
    /\ UNCHANGED <<snapshotSchedule, snapshotTTL, pending, now, history, nfsVars, setup, scan, formVars, engineVars, imageVars>>

\* GetInstanceSnapshotConfig: the first cluster, then its configuration
GetInstanceSnapshotConfig(s) ==
    /\ s \in clients
    /\ save[s].pc = "idle"
    /\ Cardinality(SaveInFlight) < maxActive
    /\ \/ save' = [save EXCEPT ![s] = [SaveIdle EXCEPT !.pc = "done", !.status = 500,
                                                      !.handler = "GetInstanceSnapshotConfig"]]
       \/ /\ Len(Clusters) # 0
          /\ save' = [save EXCEPT ![s] = [SnapshotConfig(GetApp(Clusters[1])) EXCEPT
                                            !.handler = "GetInstanceSnapshotConfig"]]
    /\ UNCHANGED <<snapshotSchedule, snapshotTTL, pending, now, history, nfsVars, setup, scan, formVars, engineVars, imageVars>>

\* the external executor starts a scheduled snapshot that is due
StartScheduledSnapshot ==
    /\ \E p \in pending :
         /\ p.at <= now
         /\ pending' = pending \ {p}
    /\ history' = HistoryAfter(FALSE, "")
    /\ UNCHANGED <<snapshotSchedule, snapshotTTL, now, save, nfsVars, setup, scan, formVars, engineVars, imageVars>>

\* a day passes
Tick ==
    /\ now < MaxTime
    /\ now' = now + 1
    /\ UNCHANGED <<snapshotSchedule, snapshotTTL, pending, save, history, nfsVars, setup, scan, formVars, engineVars, imageVars>>

\* ------------------------------------------- storage destination form
\* JavaScript values are strings here: the booleans are "true" and "false",
\* undefined is Undefined; x !== y is then x # y.

Undefined == "undefined"

\* values of a text field
Values == {"", "a"}
Booleans == {"true", "false"}

DESTINATIONS == {"aws", "azure", "gcp", "other", "internal", "nfs"}
AZURE_CLOUD_NAMES ==
    {"AzurePublicCloud", "AzureUSGovernmentCloud", "AzureChinaCloud", "AzureGermanCloud"}

\* x || ""
OrEmpty(x) == IF x \in {Undefined, ""} THEN "" ELSE x

\* find(AZURE_CLOUD_NAMES, ["value", v]), by its value
FindCloudName(v) == IF v \in AZURE_CLOUD_NAMES THEN v ELSE Undefined

\* the stores GET /snapshots/settings can answer with: one provider
\* sub-object at most, with the fields of its kind
StoreOf(provider, sub) == [provider |-> provider, bucket |-> "b", path |-> "p", sub |-> sub]
Stores ==
    {StoreOf("aws", sub) : sub \in [region : Values, accessKeyID : Values,
                                     secretAccessKey : Values, useInstanceRole : Booleans]}
    \cup {StoreOf("gcp", sub) : sub \in [serviceAccount : Values, jsonFile : Values,
                                         useInstanceRole : Booleans]}
    \cup {StoreOf("azure", [resourceGroup |-> v, storageAccount |-> v, subscriptionId |-> v,
                            tenantId |-> v, clientId |-> v, clientSecret |-> c, cloudName |-> n]) :
            v \in Values, c \in Values, n \in AZURE_CLOUD_NAMES}
    \cup {StoreOf("other", sub) : sub \in [region : Values, accessKeyID : Values,
                                           secretAccessKey : Values, endpoint : Values]}
    \cup {StoreOf("internal", [internal |-> "true"]), StoreOf("nfs", [nfs |-> "true"]),
          StoreOf("", [none |-> "true"])}

\* props.snapshotSettings?.store?.[provider]?.[field]
PropsStoreField(props, provider, field) ==
    IF props.store.provider = provider /\ field \in DOMAIN props.store.sub
    THEN props.store.sub[field]
    ELSE Undefined

\* snapshotSettings?.store?.[provider]?.[field] of the current props
StoreField(provider, field) == PropsStoreField(snapshotSettings, provider, field)

\* the state the component is constructed with
FormInit ==
    [determiningDestination |-> "true", selectedDestination |-> Undefined,
     s3bucket |-> "", s3Region |-> "", s3Path |-> "", useIamAws |-> "false",
     s3KeyId |-> "", s3KeySecret |-> "",
     azureBucket |-> "", azurePath |-> "", azureSubscriptionId |-> "", azureTenantId |-> "",
     azureClientId |-> "", azureClientSecret |-> "", azureResourceGroupName |-> "",
     azureStorageAccountId |-> "", selectedAzureCloudName |-> "AzurePublicCloud",
     gcsBucket |-> "", gcsPath |-> "", gcsServiceAccount |-> "", gcsJsonFile |-> "",
     gcsUseIam |-> "false",
     s3CompatibleBucket |-> "", s3CompatiblePath |-> "", s3CompatibleKeyId |-> "",
     s3CompatibleKeySecret |-> "", s3CompatibleEndpoint |-> "", s3CompatibleRegion |-> "",
     nfsPath |-> "", nfsServer |-> ""]

\* the fields the form shows for a destination, and the type of each
TextFields(destination) ==
    CASE destination = "aws" -> {"s3bucket", "s3Region", "s3Path", "s3KeyId", "s3KeySecret"}
      [] destination = "azure" -> {"azureBucket", "azurePath", "azureSubscriptionId",
                                    "azureTenantId", "azureClientId", "azureClientSecret",
                                    "azureResourceGroupName", "azureStorageAccountId"}
      [] destination = "gcp" -> {"gcsBucket", "gcsPath", "gcsServiceAccount"}
      [] destination = "other" -> {"s3CompatibleBucket", "s3CompatiblePath", "s3CompatibleKeyId",
                                    "s3CompatibleKeySecret", "s3CompatibleEndpoint",
                                    "s3CompatibleRegion"}
      [] destination = "nfs" -> {"nfsServer", "nfsPath"}
      [] OTHER -> {}
CheckboxFields(destination) ==
    CASE destination = "aws" -> {"useIamAws"}
      [] destination = "gcp" -> {"gcsUseIam"}
      [] OTHER -> {}

\* checkForStoreChanges(provider) on a form state f: "true" or "false" for the
\* four cloud providers, undefined for the others, a TypeError when
\* selectedAzureCloudName is undefined
checkForStoreChanges(f, provider) ==
    CASE provider = "aws" ->
           IF \/ StoreField("aws", "region") # f.s3Region
              \/ StoreField("aws", "accessKeyID") # f.s3KeyId
              \/ StoreField("aws", "secretAccessKey") # f.s3KeySecret
              \/ StoreField("aws", "useInstanceRole") # f.useIamAws
           THEN "true" ELSE "false"
      [] provider = "gcp" ->
           IF \/ StoreField("gcp", "useInstanceRole") # f.gcsUseIam
              \/ StoreField("gcp", "serviceAccount") # f.gcsServiceAccount
              \/ StoreField("gcp", "jsonFile") # f.gcsJsonFile
           THEN "true" ELSE "false"
      [] provider = "azure" ->
           IF \/ StoreField("azure", "resourceGroup") # f.azureResourceGroupName
              \/ StoreField("azure", "storageAccount") # f.azureStorageAccountId
              \/ StoreField("azure", "subscriptionId") # f.azureSubscriptionId
              \/ StoreField("azure", "tenantId") # f.azureTenantId
              \/ StoreField("azure", "clientId") # f.azureClientId
              \/ StoreField("azure", "clientSecret") # f.azureClientSecret
           THEN "true"
           ELSE IF f.selectedAzureCloudName = Undefined THEN "TypeError"
           ELSE IF StoreField("azure", "cloudName") # f.selectedAzureCloudName
           THEN "true" ELSE "false"
      [] provider = "other" ->
           IF \/ StoreField("other", "region") # f.s3CompatibleRegion
              \/ StoreField("other", "accessKeyID") # f.s3CompatibleKeyId
              \/ StoreField("other", "secretAccessKey") # f.s3CompatibleKeySecret
              \/ StoreField("other", "endpoint") # f.s3CompatibleEndpoint
           THEN "true" ELSE "false"
      [] OTHER -> Undefined

\* the sub-object getCurrentProviderStores builds for a provider
ProviderStore(f, provider) ==
    CASE provider = "aws" ->
           [region |-> f.s3Region,
            accessKeyID |-> IF f.useIamAws # "true" THEN f.s3KeyId ELSE "",
            secretAccessKey |-> IF f.useIamAws # "true" THEN f.s3KeySecret ELSE "",
            useInstanceRole |-> f.useIamAws]
      [] provider = "azure" ->
           [resourceGroup |-> f.azureResourceGroupName,
            storageAccount |-> f.azureStorageAccountId,
            subscriptionId |-> f.azureSubscriptionId,
            tenantId |-> f.azureTenantId,
            clientId |-> f.azureClientId,
            clientSecret |-> f.azureClientSecret,
            cloudName |-> f.selectedAzureCloudName]
      [] provider = "gcp" ->
           [serviceAccount |-> IF f.gcsUseIam = "true" THEN f.gcsServiceAccount ELSE "",
            jsonFile |-> IF f.gcsUseIam # "true" THEN f.gcsJsonFile ELSE "",
            useInstanceRole |-> f.gcsUseIam]
      [] provider = "other" ->
           [region |-> f.s3CompatibleRegion,
            accessKeyID |-> f.s3CompatibleKeyId,
            secretAccessKey |-> f.s3CompatibleKeySecret,
            endpoint |-> f.s3CompatibleEndpoint]

NoProviderStore == [none |-> "true"]

\* mutant: the sub-object is built whether or not anything has changed
getCurrentProviderStores_Always(f, provider) ==
    [error |-> "", has |-> TRUE, sub |-> ProviderStore(f, provider)]

\* getCurrentProviderStores(provider): the sub-object when hasChanges is
\* truthy, undefined otherwise; an exception of checkForStoreChanges passes
getCurrentProviderStores(f, provider) ==
    LET hasChanges == checkForStoreChanges(f, provider)
    IN IF hasChanges = "TypeError"
       THEN [error |-> "TypeError", has |-> FALSE, sub |-> NoProviderStore]
       ELSE IF hasChanges = "true"
       THEN [error |-> "", has |-> TRUE, sub |-> ProviderStore(f, provider)]
       ELSE [error |-> "", has |-> FALSE, sub |-> NoProviderStore]

NoPayload ==
    [provider |-> "", bucket |-> "", path |-> "", keys |-> {}, error |-> "",
     sub |-> NoProviderStore]

\* getProviderPayload(provider, bucket, path): Object.assign of the three
\* and of what getCurrentProviderStores returns
getProviderPayload(f, provider, bucket, path) ==
    LET stores == getCurrentProviderStores(f, provider)
    IN [provider |-> provider, bucket |-> bucket, path |-> path,
        keys |-> {"provider", "bucket", "path"} \cup (IF stores.has THEN {provider} ELSE {}),
        error |-> stores.error,
        sub |-> stores.sub]

\* setFields, s3-compatible store: s3CompatibleKeySecret is read from
\* store.other.accessKeySecret
setFieldsOtherSecret(props) == PropsStoreField(props, "other", "accessKeySecret")

\* setFields: the state after this.setState(...) for the store of the props
setFields(props, f) ==
    LET store == props.store
        determined == [f EXCEPT !.determiningDestination = "false"]
    IN CASE props.store.provider = "aws" ->
              [determined EXCEPT !.selectedDestination = "aws",
                                 !.s3bucket = store.bucket,
                                 !.s3Region = PropsStoreField(props, "aws", "region"),
                                 !.s3Path = store.path,
                                 !.useIamAws = PropsStoreField(props, "aws", "useInstanceRole"),
                                 !.s3KeyId = OrEmpty(PropsStoreField(props, "aws", "accessKeyID")),
                                 !.s3KeySecret = OrEmpty(PropsStoreField(props, "aws", "secretAccessKey"))]
         [] props.store.provider = "azure" ->
              [determined EXCEPT !.selectedDestination = "azure",
                                 !.azureBucket = store.bucket,
                                 !.azurePath = store.path,
                                 !.azureSubscriptionId = PropsStoreField(props, "azure", "subscriptionId"),
                                 !.azureTenantId = PropsStoreField(props, "azure", "tenantId"),
                                 !.azureClientId = PropsStoreField(props, "azure", "clientId"),
                                 !.azureClientSecret = PropsStoreField(props, "azure", "clientSecret"),
                                 !.azureResourceGroupName = PropsStoreField(props, "azure", "resourceGroup"),
                                 !.azureStorageAccountId = PropsStoreField(props, "azure", "storageAccount"),
                                 !.selectedAzureCloudName =
                                     FindCloudName(PropsStoreField(props, "azure", "cloudName"))]
         [] props.store.provider = "gcp" ->
              [determined EXCEPT !.selectedDestination = "gcp",
                                 !.gcsBucket = store.bucket,
                                 !.gcsPath = store.path,
                                 !.gcsServiceAccount = OrEmpty(PropsStoreField(props, "gcp", "serviceAccount")),
                                 !.gcsJsonFile = OrEmpty(PropsStoreField(props, "gcp", "jsonFile")),
                                 !.gcsUseIam = PropsStoreField(props, "gcp", "useInstanceRole")]
         [] props.store.provider = "other" ->
              [determined EXCEPT !.selectedDestination = "other",
                                 !.s3CompatibleBucket = store.bucket,
                                 !.s3CompatiblePath = store.path,
                                 !.s3CompatibleKeyId = PropsStoreField(props, "other", "accessKeyID"),
                                 !.s3CompatibleKeySecret = setFieldsOtherSecret(props),
                                 !.s3CompatibleEndpoint = PropsStoreField(props, "other", "endpoint"),
                                 !.s3CompatibleRegion = PropsStoreField(props, "other", "region")]
         [] props.store.provider = "internal" ->
              [determined EXCEPT !.selectedDestination = "internal"]
         [] props.store.provider = "nfs" ->
              [determined EXCEPT !.selectedDestination = "nfs",
                                 !.nfsPath = props.nfsConfig.path,
                                 !.nfsServer = props.nfsConfig.server]
         [] OTHER ->
              [determined EXCEPT !.selectedDestination = "aws"]

FormIdle == payload = NoPayload

\* componentDidMount: the first load of the form
componentDidMount ==
    /\ FormIdle
    /\ form.determiningDestination = "true"
    /\ form' = setFields(snapshotSettings, form)
    /\ edits' = 0
    /\ UNCHANGED <<snapshotSettings, payload, nfsVars, schedVars, setup, scan, engineVars, imageVars>>

\* componentDidUpdate with new props.snapshotSettings: the form is loaded again
componentDidUpdate ==
    /\ FormIdle
    /\ form.determiningDestination = "false"
    /\ edits < MaxEdits
    /\ \E store \in Stores :
         /\ store # snapshotSettings.store
         /\ snapshotSettings' = [snapshotSettings EXCEPT !.store = store]
    /\ form' = setFields(snapshotSettings', form)
    /\ edits' = edits + 1
    /\ UNCHANGED <<payload, nfsVars, schedVars, setup, scan, engineVars, imageVars>>

\* handleFormChange(field, e) on a field the form shows
handleFormChange ==
    /\ FormIdle
    /\ form.determiningDestination = "false"
    /\ edits < MaxEdits
    /\ \/ \E field \in TextFields(form.selectedDestination), value \in Values :
            /\ form[field] # value
            /\ form' = [form EXCEPT ![field] = value]
       \/ \E field \in CheckboxFields(form.selectedDestination), checked \in Booleans :
            /\ form[field] # checked
            /\ form' = [form EXCEPT ![field] = checked]
    /\ edits' = edits + 1
    /\ UNCHANGED <<snapshotSettings, payload, nfsVars, schedVars, setup, scan, engineVars, imageVars>>

\* onGcsEditorChange(value)
onGcsEditorChange ==
    /\ FormIdle
    /\ form.selectedDestination = "gcp"
    /\ edits < MaxEdits
    /\ \E value \in Values :
         /\ form.gcsJsonFile # value
         /\ form' = [form EXCEPT !.gcsJsonFile = value]
    /\ edits' = edits + 1
    /\ UNCHANGED <<snapshotSettings, payload, nfsVars, schedVars, setup, scan, engineVars, imageVars>>

\* handleAzureCloudNameChange(azureCloudName)
handleAzureCloudNameChange ==
    /\ FormIdle
    /\ form.selectedDestination = "azure"
    /\ edits < MaxEdits
    /\ \E azureCloudName \in AZURE_CLOUD_NAMES :
         /\ form.selectedAzureCloudName # azureCloudName
         /\ form' = [form EXCEPT !.selectedAzureCloudName = azureCloudName]
    /\ edits' = edits + 1
    /\ UNCHANGED <<snapshotSettings, payload, nfsVars, schedVars, setup, scan, engineVars, imageVars>>

\* handleDestinationChange(destination)
handleDestinationChange ==
    /\ FormIdle
    /\ form.determiningDestination = "false"
    /\ edits < MaxEdits
    /\ \E destination \in DESTINATIONS :
         /\ form.selectedDestination # destination
         /\ form' = [form EXCEPT !.selectedDestination = destination]
    /\ edits' = edits + 1
    /\ UNCHANGED <<snapshotSettings, payload, nfsVars, schedVars, setup, scan, engineVars, imageVars>>

\* onSubmit for a cloud provider, up to the call of props.updateSettings
snapshotProviderAWS ==
    /\ FormIdle
    /\ form.selectedDestination = "aws"
    /\ payload' = getProviderPayload(form, "aws", form.s3bucket, form.s3Path)
    /\ UNCHANGED <<snapshotSettings, form, edits, nfsVars, schedVars, setup, scan, engineVars, imageVars>>

snapshotProviderAzure ==
    /\ FormIdle
    /\ form.selectedDestination = "azure"
    /\ payload' = getProviderPayload(form, "azure", form.azureBucket, form.azurePath)
    /\ UNCHANGED <<snapshotSettings, form, edits, nfsVars, schedVars, setup, scan, engineVars, imageVars>>

snapshotProviderGoogle ==
    /\ FormIdle
    /\ form.selectedDestination = "gcp"
    /\ payload' = getProviderPayload(form, "gcp", form.gcsBucket, form.gcsPath)
    /\ UNCHANGED <<snapshotSettings, form, edits, nfsVars, schedVars, setup, scan, engineVars, imageVars>>

snapshotProviderS3Compatible ==
    /\ FormIdle
    /\ form.selectedDestination = "other"
    /\ payload' = getProviderPayload(form, "other", form.s3CompatibleBucket,
                                     form.s3CompatiblePath)
    /\ UNCHANGED <<snapshotSettings, form, edits, nfsVars, schedVars, setup, scan, engineVars, imageVars>>

\* the request made with the payload has been answered
updateSettingsDone ==
    /\ ~FormIdle
    /\ payload' = NoPayload
    /\ UNCHANGED <<snapshotSettings, form, edits, nfsVars, schedVars, setup, scan, engineVars, imageVars>>

\* ------------------------------------------- engine: detection and status
\* One request at a time is followed through the calls it makes to the
\* cluster. What a listing of the cluster answers is chosen when the call is
\* made; VeleroStatus.Plugins (the names of the init containers) is left out.

\* most items one listing of the cluster returns
MaxItems == 1

SeqsUpTo(S, n) == UNION {[1..k -> S] : k \in 0..n}

\* the first index of a non-empty set of indexes
First(S) == CHOOSE i \in S : \A j \in S : i <= j

\* velerov1api.DefaultNamespace, and another namespace an engine may run in
veleroNamespace == "velero"
Namespaces == {veleroNamespace, "backup"}

\* the cluster holds a backup storage location named "default"
DefaultLocationExists(items) ==
    \E i \in 1..Len(items) : items[i].Name = "default"

\* What BackupStorageLocations("").List answers (err, Items), and whether the
\* cluster holds a location named "default" at that time (exists): a NotFound
\* says that the cluster does not know the resource, any other error is an
\* error of the call, whatever the cluster holds.
BackupStorageLocationLists ==
    {[err |-> "nil", Items |-> items, exists |-> DefaultLocationExists(items)] :
        items \in SeqsUpTo([Name : {"default", "aws"}, Namespace : Namespaces], MaxItems + 1)}
    \cup {[err |-> "NotFound", Items |-> <<>>, exists |-> FALSE]}
    \cup {[err |-> "other", Items |-> <<>>, exists |-> e] : e \in BOOLEAN}

NoLocations == [err |-> "nil", Items |-> <<>>, exists |-> FALSE]

\* config.GetConfig, then the clientset: "nil" when both succeed
ConfigErrors == {"nil", "failed to get cluster config", "failed to create clientset"}

\* mutant: an error of the listing is returned to the caller
DetectVeleroNamespace_ListError(cfgErr, list) ==
    IF cfgErr # "nil" THEN [namespace |-> "", err |-> cfgErr]
    ELSE IF list.err # "nil" THEN [namespace |-> "", err |-> list.err]
    ELSE LET found == {i \in 1..Len(list.Items) : list.Items[i].Name = "default"}
         IN IF found = {} THEN [namespace |-> "", err |-> "nil"]
            ELSE [namespace |-> list.Items[First(found)].Namespace, err |-> "nil"]

DetectVeleroNamespace(cfgErr, list) ==
    IF cfgErr # "nil" THEN [namespace |-> "", err |-> cfgErr]
    ELSE IF list.err = "NotFound" THEN [namespace |-> "", err |-> "nil"]
    ELSE IF list.err # "nil" THEN [namespace |-> "", err |-> "nil"]
    ELSE LET found == {i \in 1..Len(list.Items) : list.Items[i].Name = "default"}
         IN IF found = {} THEN [namespace |-> "", err |-> "nil"]
            ELSE [namespace |-> list.Items[First(found)].Namespace, err |-> "nil"]

\* An image reference is the sequence of its tokens: the separators "/", ":"
\* and "@", and between them the longest runs of other characters.
\* Containers[0].Image of a workload: with a tag, without one, and without
\* one on a registry that has a port
Images == {<<"velero", "/", "velero", ":", "v1.5.1">>,
           <<"velero", "/", "velero">>,
           <<"localhost", ":", "5000", "/", "velero", "/", "velero">>}

\* the daemonset's images: with a tag, and without one
ResticImages == {image \in Images : Len(image) <= 5}

\* the string a sequence of tokens stands for
RECURSIVE Join(_)
Join(tokens) == IF tokens = <<>> THEN "" ELSE Head(tokens) \o Join(Tail(tokens))

\* The ways dockerImageNameRegex matches image: <<s, c1, c2>> where s is the
\* position the match starts at, c1 the position of the "/" that ends the
\* first optional group (?:([^\/]+)\/)?, c2 that of the second, 0 for a
\* group that is skipped. A group is one or more tokens other than "/";
\* ([^@:\/]+) is one token that is no separator, [@:] follows it, and (.+)
\* is the rest, which must not be empty.
RegexMatches(image) ==
    {t \in (1..Len(image)) \X (0..Len(image)) \X (0..Len(image)) :
        LET p2 == IF t[2] = 0 THEN t[1] ELSE t[2] + 1
            p3 == IF t[3] = 0 THEN p2 ELSE t[3] + 1
        IN /\ t[2] # 0 => /\ t[2] > t[1]
                           /\ image[t[2]] = "/"
                           /\ \A i \in t[1]..(t[2] - 1) : image[i] # "/"
           /\ t[3] # 0 => /\ t[3] > p2
                           /\ image[t[3]] = "/"
                           /\ \A i \in p2..(t[3] - 1) : image[i] # "/"
           /\ p3 + 2 <= Len(image)
           /\ image[p3] \notin {"/", ":", "@"}
           /\ image[p3 + 1] \in {":", "@"}}

\* the order in which the regexp finds them: leftmost first, and an optional
\* group is taken before it is skipped
RegexRank(t) == 4 * t[1] + (IF t[2] = 0 THEN 2 ELSE 0) + (IF t[3] = 0 THEN 1 ELSE 0)

\* the match and its four groups (an unmatched group is ""), or nothing
dockerImageNameRegex(image) ==
    IF RegexMatches(image) = {} THEN <<>>
    ELSE LET t == CHOOSE m \in RegexMatches(image) :
                    \A o \in RegexMatches(image) : RegexRank(m) <= RegexRank(o)
             p2 == IF t[2] = 0 THEN t[1] ELSE t[2] + 1
             p3 == IF t[3] = 0 THEN p2 ELSE t[3] + 1
             groups == <<SubSeq(image, t[1], Len(image)),
                         SubSeq(image, t[1], t[2] - 1),
                         SubSeq(image, p2, t[3] - 1),
                         <<image[p3]>>,
                         SubSeq(image, p3 + 2, Len(image))>>
         IN [k \in 1..5 |-> Join(groups[k])]

\* dockerImageNameRegex.FindStringSubmatch on the images of the workloads
Submatches == [image \in Images |-> dockerImageNameRegex(image)]
FindStringSubmatch(image) == Submatches[image]

\* what Deployments(namespace).List answers for one label selector
DeploymentLists == SeqsUpTo([Image : Images, AvailableReplicas : {0, 1}], MaxItems)

\* what DaemonSets(namespace).List answers for one label selector
DaemonSetLists ==
    SeqsUpTo([Image : ResticImages, NumberAvailable : {0, 1}, NumberUnavailable : {0, 1}], MaxItems)

ListErrors == {"nil", "component", "helm"}

\* mutant: only the deployments labelled component=velero are looked at
listPossibleVeleroDeployments_ComponentOnly(listErr, deployments, helmDeployments) ==
    IF listErr = "component" THEN [err |-> "failed to list deployments", Items |-> <<>>]
    ELSE [err |-> "nil", Items |-> deployments]

\* the listing under "component=velero", then under "app.kubernetes.io/name=velero"
listPossibleVeleroDeployments(listErr, deployments, helmDeployments) ==
    IF listErr = "component" THEN [err |-> "failed to list deployments", Items |-> <<>>]
    ELSE IF listErr = "helm" THEN [err |-> "failed to list helm deployments", Items |-> <<>>]
    ELSE [err |-> "nil", Items |-> deployments \o helmDeployments]

listPossibleResticDaemonsets(listErr, daemonsets, helmDaemonsets) ==
    IF listErr = "component" THEN [err |-> "failed to list daemonsets", Items |-> <<>>]
    ELSE IF listErr = "helm" THEN [err |-> "failed to list helm daemonsets", Items |-> <<>>]
    ELSE [err |-> "nil", Items |-> daemonsets \o helmDaemonsets]

\* the workloads of a listing whose image reference has the expected shape
Matched(items) == {i \in 1..Len(items) : Len(FindStringSubmatch(items[i].Image)) = 5}

\* the loop variable at the label DeploymentFound / ResticFound: the first
\* workload whose image matches, or none
NoDeployment == [Image |-> <<>>, AvailableReplicas |-> 0]
NoDaemonSet == [Image |-> <<>>, NumberAvailable |-> 0, NumberUnavailable |-> 0]
DeploymentFound(possibleDeployments) ==
    IF Matched(possibleDeployments) = {} THEN NoDeployment
    ELSE possibleDeployments[First(Matched(possibleDeployments))]
ResticFound(daemonsets) ==
    IF Matched(daemonsets) = {} THEN NoDaemonSet
    ELSE daemonsets[First(Matched(daemonsets))]

\* DetectVelero returns nil, or a VeleroStatus
NilStatus == [isNil |-> TRUE, Version |-> "", Status |-> "",
              ResticVersion |-> "", ResticStatus |-> ""]
VeleroStatus == [NilStatus EXCEPT !.isNil = FALSE]

\* mutant: a deployment counts as ready whatever its replicas
DetectVeleroDeployment_AlwaysReady(veleroStatus, possibleDeployments) ==
    LET matched == {i \in 1..Len(possibleDeployments) :
                      Len(FindStringSubmatch(possibleDeployments[i].Image)) = 5}
    IN IF matched = {} THEN veleroStatus
       ELSE [veleroStatus EXCEPT
               !.Version = FindStringSubmatch(possibleDeployments[First(matched)].Image)[5],
               !.Status = "Ready"]

\* DetectVelero's loop over the deployments: the first whose image matches
DetectVeleroDeployment(veleroStatus, possibleDeployments) ==
    LET matched == {i \in 1..Len(possibleDeployments) :
                      Len(FindStringSubmatch(possibleDeployments[i].Image)) = 5}
    IN IF matched = {} THEN veleroStatus
       ELSE LET deployment == possibleDeployments[First(matched)]
            IN [veleroStatus EXCEPT
                  !.Version = FindStringSubmatch(deployment.Image)[5],
                  !.Status = IF deployment.AvailableReplicas > 0 THEN "Ready" ELSE "NotReady"]

\* DetectVelero's loop over the daemonsets: the first whose image matches
DetectVeleroRestic(veleroStatus, daemonsets) ==
    LET matched == {i \in 1..Len(daemonsets) :
                      Len(FindStringSubmatch(daemonsets[i].Image)) = 5}
    IN IF matched = {} THEN veleroStatus
       ELSE LET daemonset == daemonsets[First(matched)]
            IN [veleroStatus EXCEPT
                  !.ResticVersion = FindStringSubmatch(daemonset.Image)[5],
                  !.ResticStatus = IF daemonset.NumberAvailable > 0
                                      /\ daemonset.NumberUnavailable = 0
                                   THEN "Ready" ELSE "NotReady"]

\* ------------------------------------------- engine: the plugins of a status
\* DetectVelero's loop over the deployments, with the init containers the
\* steps of a request above leave out.

LabelSelectors == {"component=velero", "app.kubernetes.io/name=velero"}

\* Spec.Template.Spec.InitContainers of a deployment, by name (the names of
\* the containers of one pod differ)
InitContainerLists ==
    {<<>>, <<"velero-plugin-for-aws">>, <<"velero-plugin-for-aws", "velero-plugin-for-gcp">>}

\* a deployment of the namespace that has at least one of the two labels
LabelledDeployments ==
    [Labels : SUBSET LabelSelectors \ {{}}, InitContainers : InitContainerLists,
     Image : ResticImages, AvailableReplicas : {1}]

\* Deployments(namespace).List with a label selector: the deployments that
\* carry the label, in the order of the namespace
ListDeployments(deployments, selector) ==
    LET Selected(d) == selector \in d.Labels
    IN SelectSeq(deployments, Selected)

ScanIdle == [pc |-> "idle", deployments |-> <<>>, possibleDeployments |-> <<>>,
             i |-> 0, Plugins |-> <<>>, Version |-> "", err |-> "nil"]

\* DetectVelero, lines 413-420: the status is created with no plugins and the
\* deployments are listed under the two labels
DetectVeleroList ==
    /\ scan.pc = "idle"
    /\ \E listErr \in ListErrors :
         LET listed == listPossibleVeleroDeployments(
                          listErr,
                          ListDeployments(scan.deployments, "component=velero"),
                          ListDeployments(scan.deployments, "app.kubernetes.io/name=velero"))
         IN scan' = IF listed.err # "nil"
                    THEN [scan EXCEPT !.pc = "done",
                                      !.err = "failed to list possible velero deployments"]
                    ELSE [scan EXCEPT !.pc = "loop", !.possibleDeployments = listed.Items,
                                      !.i = 1, !.Plugins = <<>>]
    /\ UNCHANGED <<nfsVars, schedVars, formVars, engineVars, imageVars, setup>>

\* one pass of the loop over possibleDeployments: the names of the init
\* containers are appended, and a deployment whose image matches ends the loop
DetectVeleroPlugins ==
    /\ scan.pc = "loop"
    /\ IF scan.i > Len(scan.possibleDeployments)
       THEN scan' = [scan EXCEPT !.pc = "done"]
       ELSE LET deployment == scan.possibleDeployments[scan.i]
                matches == FindStringSubmatch(deployment.Image)
                appended == scan.Plugins \o deployment.InitContainers
            IN scan' = IF Len(matches) = 5
                       THEN [scan EXCEPT !.pc = "done", !.Plugins = appended,
                                         !.Version = matches[5]]
                       ELSE [scan EXCEPT !.i = @ + 1, !.Plugins = appended]
    /\ UNCHANGED <<nfsVars, schedVars, formVars, engineVars, imageVars, setup>>

\* ------------------------------------------- engine: the request in steps

\* the answer of a handler (status, JSON body) or of the command (status is
\* its exit code, success says "NFS configured successfully" was printed)
NoAnswer == [status |-> 0, success |-> FALSE, error |-> "", conflict |-> FALSE,
             isMinimalRBACEnabled |-> FALSE,
             isVeleroRunning |-> FALSE, isResticRunning |-> FALSE]

RunIdle == [caller |-> "", pc |-> "idle", wait |-> FALSE,
            backupStorageLocations |-> NoLocations, veleroNamespace |-> "",
            deployment |-> NoDeployment, daemonset |-> NoDaemonSet, listed |-> 0,
            listErr |-> "nil", candidates |-> {},
            veleroStatus |-> NilStatus, response |-> NoAnswer]

\* the request is answered: the handler or the command returns (the listing
\* of the locations is out of scope by then)
Answered(r) ==
    run' = [run EXCEPT !.pc = "done", !.response = r, !.backupStorageLocations = NoLocations]

\* a handler answers 500 after logging errMsg; the command returns the error
Failed(errMsg) ==
    IF run.caller = "BackupConfigureNFSCmd"
    THEN [NoAnswer EXCEPT !.status = 1, !.error = errMsg]
    ELSE [NoAnswer EXCEPT !.status = 500, !.error = errMsg]

\* response.Success = true, JSON(w, http.StatusOK, response); return nil
Succeeded ==
    IF run.caller = "BackupConfigureNFSCmd"
    THEN [NoAnswer EXCEPT !.success = TRUE]
    ELSE [NoAnswer EXCEPT !.status = 200, !.success = TRUE]

Called(name, err) == calls' = Append(calls, <<name, err>>)

\* mutant: with minimal RBAC the handler notes it in the response and goes on
ConfigureNFSSnapshotsReconcile_RBACIgnored ==
    /\ run.pc = "idle"
    /\ LET r == [RunIdle EXCEPT !.caller = "ConfigureNFSSnapshots", !.wait = TRUE]
       IN \/ /\ run' = [r EXCEPT !.pc = "namespace", !.response.isMinimalRBACEnabled = TRUE]
             /\ Called("DeployNFSMinio", "nil")
          \/ /\ run' = [r EXCEPT !.pc = "namespace"]
             /\ Called("DeployNFSMinio", "nil")
    /\ UNCHANGED <<nfsVars, schedVars, formVars, imageVars, setup, scan>>

\* ConfigureNFSSnapshots up to the return of configureNFSMinio and the
\* registry options
ConfigureNFSSnapshotsReconcile ==
    /\ run.pc = "idle"
    /\ LET r == [RunIdle EXCEPT !.caller = "ConfigureNFSSnapshots", !.wait = TRUE]
           Answer(a) == run' = [r EXCEPT !.pc = "done", !.response = a]
       IN \/ \* the body does not decode
             /\ Answer([NoAnswer EXCEPT !.status = 400, !.error = "failed to decode request body"])
             /\ UNCHANGED calls
          \/ \* k8s.Clientset fails
             /\ Answer([NoAnswer EXCEPT !.status = 500, !.error = "failed to get k8s client set"])
             /\ UNCHANGED calls
          \/ \* minimal RBAC
             /\ Answer([NoAnswer EXCEPT !.status = 200, !.isMinimalRBACEnabled = TRUE])
             /\ UNCHANGED calls
          \/ \* configureNFSMinio fails before it calls DeployNFSMinio
             /\ Answer([NoAnswer EXCEPT !.status = ConfigureNFSSnapshotsNFSError("other").status,
                                        !.error = "failed to configure nfs minio"])
             /\ UNCHANGED calls
          \/ \* DeployNFSMinio fails
             \E err \in {"ResetNFSError", "other"} :
               /\ Answer([NoAnswer EXCEPT !.status = ConfigureNFSSnapshotsNFSError(err).status,
                                          !.conflict = ConfigureNFSSnapshotsNFSError(err).conflict,
                                          !.error = err])
               /\ Called("DeployNFSMinio", err)
          \/ \* DeployNFSMinio returns nil, GetKotsadmOptionsFromCluster fails
             /\ Answer([NoAnswer EXCEPT !.status = 500,
                                        !.error = "failed to get kotsadm options from cluster"])
             /\ Called("DeployNFSMinio", "nil")
          \/ /\ run' = [r EXCEPT !.pc = "namespace"]
             /\ Called("DeployNFSMinio", "nil")
    /\ UNCHANGED <<nfsVars, schedVars, formVars, imageVars, setup, scan>>

\* the command up to the return of its last DeployNFSMinio
BackupConfigureNFSCmdReconcile ==
    /\ run.pc = "idle"
    /\ \E wait \in BOOLEAN :
        LET r == [RunIdle EXCEPT !.caller = "BackupConfigureNFSCmd", !.wait = wait]
            Answer(a) == run' = [r EXCEPT !.pc = "done", !.response = a]
            first(err) == <<<<"DeployNFSMinio", err>>>>
        IN \/ \* a flag is missing, or the cluster cannot be reached
              /\ Answer([NoAnswer EXCEPT !.status = 1, !.error = "failed"])
              /\ UNCHANGED calls
           \/ /\ Answer([NoAnswer EXCEPT !.status = 1, !.error = "failed to deploy nfs minio"])
              /\ calls' = calls \o first("other")
           \/ \* ResetNFSError: promptForNFSReset exits
              /\ Answer([NoAnswer EXCEPT !.status = 255, !.conflict = TRUE])
              /\ calls' = calls \o first("ResetNFSError")
           \/ \* promptForNFSReset returns true, the forced deployment fails
              /\ Answer([NoAnswer EXCEPT !.status = 1, !.conflict = TRUE,
                                         !.error = "failed to force deploy nfs minio"])
              /\ calls' = calls \o first("ResetNFSError") \o first("other")
           \/ \* promptForNFSReset returns true, the forced deployment succeeds
              /\ run' = [r EXCEPT !.pc = "namespace"]
              /\ calls' = calls \o first("ResetNFSError") \o first("nil")
           \/ /\ run' = [r EXCEPT !.pc = "namespace"]
              /\ calls' = calls \o first("nil")
    /\ UNCHANGED <<nfsVars, schedVars, formVars, imageVars, setup, scan>>

\* mutant: the engine is installed whatever was detected
ConfigurePath_AlwaysInstall(namespace) == "install"

\* velero not found: install it; already installed: only configure it
ConfigurePath(namespace) == IF namespace = "" THEN "install" ELSE "images"

\* DetectVeleroNamespace called by a configuration request, and the branch
\* on what it returns
ConfigureDetectVeleroNamespace ==
    /\ run.pc = "namespace"
    /\ \E cfgErr \in ConfigErrors, list \in BackupStorageLocationLists :
        LET detected == DetectVeleroNamespace(cfgErr, list)
            r == [run EXCEPT !.backupStorageLocations = list,
                             !.veleroNamespace = detected.namespace]
        IN /\ Called("DetectVeleroNamespace", detected.err)
           /\ IF detected.err # "nil"
              THEN run' = [r EXCEPT !.pc = "done",
                                    !.response = Failed("failed to detect velero namespace")]
              ELSE run' = [r EXCEPT !.pc = ConfigurePath(detected.namespace)]
    /\ UNCHANGED <<nfsVars, schedVars, formVars, imageVars, setup, scan>>

\* the steps of InstallVelero that can fail, in their order; the last is
\* taken only when veleroInstallOptions.Wait is set
InstallVeleroErrors(wait) ==
    {"failed to build nfs store", "failed to rewrite images", "Error installing Velero",
     "failed to configure velero images", "nil"}
    \cup (IF wait THEN {"failed to wait for velero"} ELSE {})

\* no engine namespace: install and configure the engine using the NFS store
InstallVeleroFromStoreNFS ==
    /\ run.pc = "install"
    /\ \E err \in InstallVeleroErrors(run.wait) :
        /\ Called("InstallVelero", err)
        /\ IF err # "nil" THEN Answered(Failed("failed to install velero"))
           ELSE Answered(Succeeded)
    /\ UNCHANGED <<nfsVars, schedVars, formVars, imageVars, setup, scan>>

\* the engine is installed: rewrite the images of its workloads
ConfigureVeleroImages ==
    /\ run.pc = "images"
    /\ \E err \in {"nil", "failed to rewrite images", "failed to update velero deployment"} :
        /\ Called("ConfigureVeleroImages", err)
        /\ IF err # "nil" THEN Answered(Failed("failed to configure velero images"))
           ELSE run' = [run EXCEPT !.pc = "store", !.backupStorageLocations = NoLocations]
    /\ UNCHANGED <<nfsVars, schedVars, formVars, imageVars, setup, scan>>

\* mutant: the handler answers success when the wait fails
WaitForVeleroReadyFailed_Soft == Succeeded

\* the answer when WaitForVeleroReady returns an error
WaitForVeleroReadyFailed == Failed("failed to wait for velero")

\* ConfigureStore with NFS set; the command then waits only if asked to
ConfigureStore ==
    /\ run.pc = "store"
    /\ \E err \in {"nil", "failed to configure store"} :
        /\ Called("ConfigureStore", err)
        /\ IF err # "nil" THEN Answered(Failed("failed to configure store"))
           ELSE IF run.wait THEN run' = [run EXCEPT !.pc = "wait"]
           ELSE Answered(Succeeded)
    /\ UNCHANGED <<nfsVars, schedVars, formVars, imageVars, setup, scan>>

\* WaitForVeleroReady: the deployment or the daemonset is not ready in time
WaitForVeleroReady ==
    /\ run.pc = "wait"
    /\ \E err \in {"nil", "timeout"} :
        /\ Called("WaitForVeleroReady", err)
        /\ IF err # "nil" THEN Answered(WaitForVeleroReadyFailed)
           ELSE Answered(Succeeded)
    /\ UNCHANGED <<nfsVars, schedVars, formVars, imageVars, setup, scan>>

\* the body GetGlobalSnapshotSettings answers once DetectVelero returned a status
GlobalSnapshotSettingsResponse(veleroStatus) ==
    [NoAnswer EXCEPT !.isVeleroRunning = (veleroStatus.Status = "Ready"),
                     !.isResticRunning = (veleroStatus.ResticStatus = "Ready")]

\* GetGlobalSnapshotSettings: DetectVelero up to the engine's namespace
GetGlobalSnapshotSettings ==
    /\ run.pc = "idle"
    /\ \E cfgErr \in ConfigErrors, nsCfgErr \in ConfigErrors, list \in BackupStorageLocationLists :
        LET detected == DetectVeleroNamespace(nsCfgErr, list)
            r == [RunIdle EXCEPT !.caller = "GetGlobalSnapshotSettings"]
            failed == [NoAnswer EXCEPT !.status = 500, !.error = "failed to detect velero"]
        IN IF cfgErr # "nil"
           THEN run' = [r EXCEPT !.pc = "done", !.response = failed]
           ELSE IF detected.err # "nil"
           THEN run' = [r EXCEPT !.pc = "done", !.response = failed,
                                 !.backupStorageLocations = list]
           ELSE IF detected.namespace = ""
           THEN \* veleroStatus == nil
                run' = [r EXCEPT !.pc = "done", !.response = [NoAnswer EXCEPT !.status = 200],
                                 !.backupStorageLocations = list]
           ELSE run' = [r EXCEPT !.pc = "deployments", !.backupStorageLocations = list,
                                 !.veleroNamespace = detected.namespace,
                                 !.veleroStatus = VeleroStatus]
    /\ UNCHANGED <<calls, nfsVars, schedVars, formVars, imageVars, setup, scan>>

\* history of the listing: the deployments, listed under either selector,
\* whose image reference has the expected shape
Candidates(deployments, helmDeployments) ==
    {deployments[i] : i \in Matched(deployments)}
    \cup {helmDeployments[i] : i \in Matched(helmDeployments)}

\* DetectVelero from listPossibleVeleroDeployments to the label DeploymentFound
DetectVeleroDeploymentsStep(listErr, deployments, helmDeployments) ==
    LET possible == listPossibleVeleroDeployments(listErr, deployments, helmDeployments)
    IN IF possible.err # "nil"
       THEN run' = [run EXCEPT !.pc = "done", !.veleroStatus = NilStatus,
                               !.backupStorageLocations = NoLocations,
                               !.listErr = listErr,
                               !.response = [NoAnswer EXCEPT !.status = 500,
                                                             !.error = "failed to detect velero"]]
       ELSE run' = [run EXCEPT !.pc = "daemonsets",
                               !.backupStorageLocations = NoLocations,
                               !.deployment = DeploymentFound(possible.Items),
                               !.listed = Len(possible.Items),
                               !.listErr = listErr,
                               !.candidates = Candidates(deployments, helmDeployments),
                               !.veleroStatus = DetectVeleroDeployment(run.veleroStatus, possible.Items)]

\* DetectVelero: the deployments of the engine's namespace; a listing that
\* fails answers no items
DetectVeleroDeployments ==
    /\ run.pc = "deployments"
    /\ \/ \E listErr \in ListErrors \ {"nil"} :
             DetectVeleroDeploymentsStep(listErr, <<>>, <<>>)
       \/ \E deployments \in DeploymentLists, helmDeployments \in DeploymentLists :
             DetectVeleroDeploymentsStep("nil", deployments, helmDeployments)
    /\ UNCHANGED <<calls, nfsVars, schedVars, formVars, imageVars, setup, scan>>

\* DetectVelero from listPossibleResticDaemonsets to its return, and the rest
\* of GetGlobalSnapshotSettings
DetectVeleroDaemonsetsStep(listErr, daemonsets, helmDaemonsets) ==
    LET possible == listPossibleResticDaemonsets(listErr, daemonsets, helmDaemonsets)
        veleroStatus == DetectVeleroRestic(run.veleroStatus, possible.Items)
        r == [run EXCEPT !.pc = "done", !.candidates = {}, !.listErr = listErr]
    IN IF possible.err # "nil"
       THEN run' = [r EXCEPT !.veleroStatus = NilStatus,
                             !.response = [NoAnswer EXCEPT !.status = 500,
                                                           !.error = "failed to detect velero"]]
       ELSE \E storeErr \in {"nil", "failed to get store", "failed to redact",
                             "failed to get nfs config"} :
              run' = [r EXCEPT
                        !.daemonset = ResticFound(possible.Items),
                        !.listed = run.listed + Len(possible.Items),
                        !.veleroStatus = veleroStatus,
                        !.response =
                           IF storeErr # "nil"
                           THEN [GlobalSnapshotSettingsResponse(veleroStatus) EXCEPT
                                    !.status = 500, !.error = storeErr]
                           ELSE [GlobalSnapshotSettingsResponse(veleroStatus) EXCEPT
                                    !.status = 200, !.success = TRUE]]

\* DetectVelero: the daemonsets of the engine's namespace
DetectVeleroDaemonsets ==
    /\ run.pc = "daemonsets"
    /\ \/ \E listErr \in ListErrors \ {"nil"} :
             DetectVeleroDaemonsetsStep(listErr, <<>>, <<>>)
       \/ \E daemonsets \in DaemonSetLists, helmDaemonsets \in DaemonSetLists :
             DetectVeleroDaemonsetsStep("nil", daemonsets, helmDaemonsets)
    /\ UNCHANGED <<calls, nfsVars, schedVars, formVars, imageVars, setup, scan>>

\* the answer is delivered, the next request may start
RequestReturns ==
    /\ run.pc = "done"
    /\ run' = RunIdle
    /\ calls' = <<>>
    /\ UNCHANGED <<nfsVars, schedVars, formVars, imageVars, setup, scan>>

\* ------------------------------------------- images of the engine's workloads

defaultVeleroImage == "velero/velero:v1.5.1"
defaultVeleroAWSPluginImage == "velero/velero-plugin-for-aws:v1.1.0"
defaultVeleroResticRestoreHelperImage == "velero/velero-restic-restore-helper:v1.5.1"

\* metav1.NamespaceDefault
NamespaceDefault == "default"

\* kotsadmRegistryOptions: the registry the images are to come from ("" for
\* none), and the image reference the rewrite function fails on ("" for none)
KotsadmOptions ==
    [OverrideRegistry : {"", "registry.local"},
     unparsed : {"", defaultVeleroImage, defaultVeleroAWSPluginImage,
                 defaultVeleroResticRestoreHelperImage}]

\* imageRewriteFn(image, false) of ImageRewriteKotsadmRegistry: the reference
\* under the registry of the options and the pull secret it needs
imageRewriteFn(options, image) ==
    IF image = options.unparsed
    THEN [image |-> "", imagePullSecrets |-> <<>>, err |-> "failed to parse image"]
    ELSE IF options.OverrideRegistry = ""
    THEN [image |-> image, imagePullSecrets |-> <<>>, err |-> "nil"]
    ELSE [image |-> options.OverrideRegistry \o "/" \o image,
          imagePullSecrets |-> <<"kotsadm-private-registry">>, err |-> "nil"]

\* mutant: an image that cannot be rewritten is passed over
rewriteVeleroImages_Unchecked(isKurl, kotsadmNamespace, options) ==
    [veleroImage |-> imageRewriteFn(options, defaultVeleroImage).image,
     awsPluginImage |-> imageRewriteFn(options, defaultVeleroAWSPluginImage).image,
     resticRestoreHelperImage |->
        imageRewriteFn(options, defaultVeleroResticRestoreHelperImage).image,
     imagePullSecrets |-> imageRewriteFn(options, defaultVeleroImage).imagePullSecrets,
     finalErr |-> "nil",
     rewritten |-> <<defaultVeleroImage, defaultVeleroAWSPluginImage,
                     defaultVeleroResticRestoreHelperImage>>]

\* rewriteVeleroImages: its named results, and as history the images it
\* handed to the rewrite function
rewriteVeleroImages(isKurl, kotsadmNamespace, options) ==
    LET defaults == [veleroImage |-> defaultVeleroImage,
                     awsPluginImage |-> defaultVeleroAWSPluginImage,
                     resticRestoreHelperImage |-> defaultVeleroResticRestoreHelperImage,
                     imagePullSecrets |-> <<>>, finalErr |-> "nil", rewritten |-> <<>>]
        velero == imageRewriteFn(options, defaultVeleroImage)
        awsPlugin == imageRewriteFn(options, defaultVeleroAWSPluginImage)
        helper == imageRewriteFn(options, defaultVeleroResticRestoreHelperImage)
        first == [defaults EXCEPT !.veleroImage = velero.image,
                                  !.imagePullSecrets = velero.imagePullSecrets,
                                  !.rewritten = <<defaultVeleroImage>>]
        second == [first EXCEPT !.awsPluginImage = awsPlugin.image,
                                !.rewritten = Append(first.rewritten, defaultVeleroAWSPluginImage)]
        third == [second EXCEPT !.resticRestoreHelperImage = helper.image,
                                !.rewritten = Append(second.rewritten,
                                                     defaultVeleroResticRestoreHelperImage)]
    IN IF ~isKurl \/ kotsadmNamespace # NamespaceDefault
       THEN IF velero.err # "nil"
            THEN [first EXCEPT !.finalErr = "failed to rewrite velero image"]
            ELSE IF awsPlugin.err # "nil"
            THEN [second EXCEPT !.finalErr = "failed to rewrite aws plugin image"]
            ELSE IF helper.err # "nil"
            THEN [third EXCEPT !.finalErr = "failed to rewrite restic restore helper image"]
            ELSE third
       ELSE defaults

\* the objects of the engine's namespace: the deployment "velero", the
\* daemonset "restic", the config map of the restore helper and the pull
\* secret of the registry. Args, HostPath and Labels stand for the fields the
\* operation has no business with.
NoVeleroDeployment ==
    [exists |-> FALSE, ImagePullSecrets |-> <<>>, InitContainers |-> <<>>,
     Image |-> "", Args |-> ""]
NoResticDaemonSet ==
    [exists |-> FALSE, ImagePullSecrets |-> <<>>, InitContainers |-> <<>>,
     Image |-> "", HostPath |-> ""]
NoConfigMap == [exists |-> FALSE, Labels |-> "", image |-> "", other |-> ""]

VeleroDeployments ==
    {NoVeleroDeployment}
    \cup [exists : {TRUE}, ImagePullSecrets : {<<>>, <<"regcred">>},
          InitContainers : {<<defaultVeleroAWSPluginImage>>,
                            <<defaultVeleroAWSPluginImage, "velero/velero-plugin-for-gcp:v1.1.0">>},
          Image : {defaultVeleroImage}, Args : {"server"}]
ResticDaemonSets ==
    {NoResticDaemonSet}
    \cup [exists : {TRUE}, ImagePullSecrets : {<<>>, <<"regcred">>},
          InitContainers : {<<>>, <<"busybox">>},
          Image : {defaultVeleroImage}, HostPath : {"/var/lib/kubelet/pods"}]
\* Data of the config map: its key "image" and another key, "" when absent
ConfigMaps ==
    {NoConfigMap,
     [exists |-> TRUE, Labels |-> "user", image |-> "", other |-> ""],
     [exists |-> TRUE, Labels |-> "user", image |-> "old/helper:v1", other |-> "kept"]}

\* a namespace without any of them
NoObjects ==
    [deployment |-> NoVeleroDeployment, daemonset |-> NoResticDaemonSet,
     configMap |-> NoConfigMap, secret |-> FALSE]

\* resticConfigMapResource(image)
resticConfigMapResource(image) ==
    [exists |-> TRUE, Labels |-> "velero.io/restic", image |-> image, other |-> ""]

\* no operation is running
OpIdle ==
    [name |-> "", pc |-> "idle", isKurl |-> FALSE, kotsadmNamespace |-> "",
     options |-> [OverrideRegistry |-> "", unparsed |-> ""], wait |-> FALSE,
     images |-> rewriteVeleroImages(TRUE, NamespaceDefault, [OverrideRegistry |-> "", unparsed |-> ""]),
     rewritten |-> <<>>, accesses |-> <<>>, before |-> NoObjects,
     polls |-> 0, observed |-> <<>>, err |-> "nil", again |-> FALSE]

\* the operation returns err; inside InstallVelero an error of
\* ConfigureVeleroImages is wrapped, and without one the wait follows if asked for
Returns(o, err) == [o EXCEPT !.pc = "done", !.err = err]
ConfigureVeleroImagesReturns(o, err) ==
    IF o.name = "InstallVelero"
    THEN IF err # "nil" THEN Returns(o, "failed to configure velero images")
         ELSE IF o.wait THEN [o EXCEPT !.pc = "wait"]
         ELSE Returns(o, "nil")
    ELSE Returns(o, err)

\* a call to the cluster, as history
Access(o, verb, object) == [o EXCEPT !.accesses = Append(o.accesses, <<verb, object>>)]

\* InstallVelero up to install.Install: the images, the resources, the factory
InstallVeleroResources ==
    /\ op.pc = "idle"
    /\ \E isKurl \in BOOLEAN, kotsadmNamespace \in {NamespaceDefault, "kotsadm"},
          options \in KotsadmOptions, wait \in BOOLEAN,
          err \in {"nil", "failed to get resources", "failed to get velero factory"} :
        LET images == rewriteVeleroImages(isKurl, kotsadmNamespace, options)
            o == [OpIdle EXCEPT !.name = "InstallVelero", !.isKurl = isKurl,
                                !.kotsadmNamespace = kotsadmNamespace,
                                !.options = options, !.wait = wait, !.before = kube,
                                !.images = images, !.rewritten = images.rewritten]
        IN op' = IF images.finalErr # "nil" THEN Returns(o, "failed to rewrite images")
                 ELSE IF err # "nil" THEN Returns(o, err)
                 ELSE [o EXCEPT !.pc = "install"]
    /\ UNCHANGED <<kube, nfsVars, schedVars, formVars, engineVars, setup, scan>>

\* install.Install: the resources that do not exist are created, the
\* deployment with the plugin as its init container before the daemonset
InstallVeleroInstall ==
    /\ op.pc = "install"
    /\ LET deployment == [exists |-> TRUE, ImagePullSecrets |-> <<>>,
                          InitContainers |-> <<op.images.awsPluginImage>>,
                          Image |-> op.images.veleroImage, Args |-> "server"]
           daemonset == [exists |-> TRUE, ImagePullSecrets |-> <<>>,
                         InitContainers |-> <<>>, Image |-> op.images.veleroImage,
                         HostPath |-> "/var/lib/kubelet/pods"]
           withDeployment == IF kube.deployment.exists THEN kube
                             ELSE [kube EXCEPT !.deployment = deployment]
           withDaemonSet == IF kube.daemonset.exists THEN withDeployment
                            ELSE [withDeployment EXCEPT !.daemonset = daemonset]
       IN \/ /\ kube' \in {kube, withDeployment}
             /\ op' = Returns(Access(op, "create", "resources"), "Error installing Velero")
          \/ /\ kube' = withDaemonSet
             /\ op' = [Access(op, "create", "resources") EXCEPT !.pc = "images"]
    /\ UNCHANGED <<nfsVars, schedVars, formVars, engineVars, setup, scan>>

\* mutant: the kurl cluster is not told apart
IsKurlDefault_Never(isKurl, kotsadmNamespace) == FALSE

\* the guard of ConfigureVeleroImages
IsKurlDefault(isKurl, kotsadmNamespace) ==
    isKurl /\ kotsadmNamespace = NamespaceDefault

\* ConfigureVeleroImages up to the return of rewriteVeleroImages
ConfigureVeleroImagesRewrite(o) ==
    LET images == rewriteVeleroImages(o.isKurl, o.kotsadmNamespace, o.options)
        rewrote == [o EXCEPT !.images = images,
                             !.rewritten = o.rewritten \o images.rewritten]
    IN IF IsKurlDefault(o.isKurl, o.kotsadmNamespace)
       THEN ConfigureVeleroImagesReturns(o, "nil")
       ELSE IF images.finalErr # "nil"
       THEN ConfigureVeleroImagesReturns(rewrote, "failed to rewrite images")
       ELSE [rewrote EXCEPT !.pc = "secret"]

\* ConfigureVeleroImages is called on an engine that is installed
ConfigureVeleroImagesOnly ==
    /\ op.pc = "idle"
    /\ \E isKurl \in BOOLEAN, kotsadmNamespace \in {NamespaceDefault, "kotsadm"},
          options \in KotsadmOptions :
        op' = ConfigureVeleroImagesRewrite(
                 [OpIdle EXCEPT !.name = "ConfigureVeleroImages", !.isKurl = isKurl,
                                !.kotsadmNamespace = kotsadmNamespace,
                                !.options = options, !.before = kube])
    /\ UNCHANGED <<kube, nfsVars, schedVars, formVars, engineVars, setup, scan>>

\* ConfigureVeleroImages has returned without error on a cluster where it
\* rewrites, and is called once more with the same registry options
ConfigureVeleroImagesAgain ==
    /\ op.pc = "done"
    /\ op.name = "ConfigureVeleroImages"
    /\ op.err = "nil"
    /\ ~IsKurlDefault(op.isKurl, op.kotsadmNamespace)
    /\ ~op.again
    /\ op' = ConfigureVeleroImagesRewrite(
                [OpIdle EXCEPT !.name = "ConfigureVeleroImages", !.isKurl = op.isKurl,
                               !.kotsadmNamespace = op.kotsadmNamespace,
                               !.options = op.options, !.before = kube, !.again = TRUE])
    /\ UNCHANGED <<kube, nfsVars, schedVars, formVars, engineVars, setup, scan>>

\* InstallVelero calls ConfigureVeleroImages
InstallVeleroConfigureImages ==
    /\ op.pc = "images"
    /\ op' = ConfigureVeleroImagesRewrite(op)
    /\ UNCHANGED <<kube, nfsVars, schedVars, formVars, engineVars, setup, scan>>

\* kotsadm.EnsurePrivateKotsadmRegistrySecret: the pull secret of the
\* registry is written to the engine's namespace if the options name one
EnsurePrivateKotsadmRegistrySecret ==
    /\ op.pc = "secret"
    /\ LET o == Access(op, "ensure", "secret")
       IN \/ /\ op' = ConfigureVeleroImagesReturns(o, "failed to ensure private kotsadm registry secret")
             /\ UNCHANGED kube
          \/ /\ op' = [o EXCEPT !.pc = "deployment"]
             /\ kube' = [kube EXCEPT !.secret = @ \/ op.options.OverrideRegistry # ""]
    /\ UNCHANGED <<nfsVars, schedVars, formVars, engineVars, setup, scan>>

\* mutant: the plugin is added in front of the init containers
PatchVeleroDeployment_AddPlugin(veleroDeployment, images) ==
    [veleroDeployment EXCEPT
        !.ImagePullSecrets = images.imagePullSecrets,
        !.InitContainers = <<images.awsPluginImage>> \o @,
        !.Image = images.veleroImage]

\* mutant: the init containers are replaced by the plugin alone
PatchVeleroDeployment_OnePlugin(veleroDeployment, images) ==
    [veleroDeployment EXCEPT
        !.ImagePullSecrets = images.imagePullSecrets,
        !.InitContainers = <<images.awsPluginImage>>,
        !.Image = images.veleroImage]

\* the fields of the deployment that are assigned between Get and Update
PatchVeleroDeployment(veleroDeployment, images) ==
    [veleroDeployment EXCEPT
        !.ImagePullSecrets = images.imagePullSecrets,
        !.InitContainers = [@ EXCEPT ![1] = images.awsPluginImage],
        !.Image = images.veleroImage]

\* Get, assign and Update of the deployment "velero"
UpdateVeleroDeployment ==
    /\ op.pc = "deployment"
    /\ LET got == Access(op, "get", "deployment")
           updated == Access(got, "update", "deployment")
       IN \/ /\ op' = ConfigureVeleroImagesReturns(got, "failed to get velero deployment")
             /\ UNCHANGED kube
          \/ /\ kube.deployment.exists
             /\ op' = ConfigureVeleroImagesReturns(updated, "failed to update velero deployment")
             /\ UNCHANGED kube
          \/ /\ kube.deployment.exists
             /\ op' = [updated EXCEPT !.pc = "configmap"]
             /\ kube' = [kube EXCEPT !.deployment = PatchVeleroDeployment(@, op.images)]
    /\ UNCHANGED <<nfsVars, schedVars, formVars, engineVars, setup, scan>>

\* the config map that names the image of the restore helper: created or
\* updated when the image is rewritten, deleted when it is the default
UpdateResticConfigMap ==
    /\ op.pc = "configmap"
    /\ LET image == op.images.resticRestoreHelperImage
           got == Access(op, "get", "configmap")
       IN IF image # defaultVeleroResticRestoreHelperImage
          THEN \/ /\ op' = ConfigureVeleroImagesReturns(got, "failed to get restic configmap")
                  /\ UNCHANGED kube
               \/ /\ ~kube.configMap.exists
                  /\ \/ /\ op' = ConfigureVeleroImagesReturns(Access(got, "create", "configmap"),
                                                              "failed to create restic configmap")
                        /\ UNCHANGED kube
                     \/ /\ op' = [Access(got, "create", "configmap") EXCEPT !.pc = "daemonset"]
                        /\ kube' = [kube EXCEPT !.configMap = resticConfigMapResource(image)]
               \/ /\ kube.configMap.exists
                  /\ \/ /\ op' = ConfigureVeleroImagesReturns(Access(got, "update", "configmap"),
                                                              "failed to update restic configmap")
                        /\ UNCHANGED kube
                     \/ /\ op' = [Access(got, "update", "configmap") EXCEPT !.pc = "daemonset"]
                        /\ kube' = [kube EXCEPT !.configMap.image = image]
          ELSE LET deleted == Access(op, "delete", "configmap")
               IN \/ /\ op' = ConfigureVeleroImagesReturns(deleted, "failed to delete restic configmap")
                     /\ UNCHANGED kube
                  \/ /\ op' = [deleted EXCEPT !.pc = "daemonset"]
                     /\ kube' = [kube EXCEPT !.configMap = NoConfigMap]
    /\ UNCHANGED <<nfsVars, schedVars, formVars, engineVars, setup, scan>>

\* the fields of the daemonset that are assigned between Get and Update
PatchResticDaemonSet(resticDaemonSet, images) ==
    [resticDaemonSet EXCEPT
        !.ImagePullSecrets = images.imagePullSecrets,
        !.Image = images.veleroImage]

\* Get, assign and Update of the daemonset "restic", and the return
UpdateResticDaemonSet ==
    /\ op.pc = "daemonset"
    /\ LET got == Access(op, "get", "daemonset")
           updated == Access(got, "update", "daemonset")
       IN \/ /\ op' = ConfigureVeleroImagesReturns(got, "failed to get restic daemonset")
             /\ UNCHANGED kube
          \/ /\ kube.daemonset.exists
             /\ op' = ConfigureVeleroImagesReturns(updated, "failed to update restic daemonset")
             /\ UNCHANGED kube
          \/ /\ kube.daemonset.exists
             /\ op' = ConfigureVeleroImagesReturns(updated, "nil")
             /\ kube' = [kube EXCEPT !.daemonset = PatchResticDaemonSet(@, op.images)]
    /\ UNCHANGED <<nfsVars, schedVars, formVars, engineVars, setup, scan>>

\* WaitForVeleroReady is called on its own: without a factory it gets one
WaitForVeleroReadyOnly ==
    /\ op.pc = "idle"
    /\ LET o == [OpIdle EXCEPT !.name = "WaitForVeleroReady", !.before = kube]
       IN \/ op' = Returns(o, "failed to get velero factory")
          \/ op' = [o EXCEPT !.pc = "wait"]
    /\ UNCHANGED <<kube, nfsVars, schedVars, formVars, engineVars, setup, scan>>

\* the error of WaitForVeleroReady as the operation returns it
WaitForVeleroReadyReturns(o, err) ==
    IF o.name = "InstallVelero" /\ err # "nil" THEN Returns(o, "Error installing Velero")
    ELSE Returns(o, err)

\* mutant: a wait has no timeout
TimedOut_Never(polls) == FALSE

\* the timeout of a wait has elapsed after this many status reads
TimedOut(polls) == polls >= MaxPolls

\* One status read of a wait for a workload: the read fails, or the workload
\* is ready and the wait is over, or it is not and the wait goes on until
\* its timeout. observed is the history of the workloads seen ready.
Poll(workload, errMsg, next) ==
    \/ op' = WaitForVeleroReadyReturns(op, errMsg)
    \/ op' = IF next = "done"
             THEN WaitForVeleroReadyReturns(
                     [op EXCEPT !.polls = 0, !.observed = Append(@, workload)], "nil")
             ELSE [op EXCEPT !.pc = next, !.polls = 0, !.observed = Append(@, workload)]
    \/ op' = IF TimedOut(op.polls + 1)
             THEN WaitForVeleroReadyReturns(op, errMsg)
             ELSE [op EXCEPT !.polls = IF @ < MaxPolls THEN @ + 1 ELSE @]

\* waitForVeleroDeploymentReady: k8sutil.WaitForDeploymentReady, two minutes
WaitForDeploymentReady ==
    /\ op.pc = "wait"
    /\ Poll("deployment", "failed to wait for velero deployment to be ready", "isready")
    /\ UNCHANGED <<kube, nfsVars, schedVars, formVars, engineVars, setup, scan>>

\* waitForVeleroDeploymentReady: install.DeploymentIsReady
DeploymentIsReady ==
    /\ op.pc = "isready"
    /\ Poll("deployment", "failed to wait for velero deployment to be ready", "restic")
    /\ UNCHANGED <<kube, nfsVars, schedVars, formVars, engineVars, setup, scan>>

\* install.DaemonSetIsReady, and the return of WaitForVeleroReady
DaemonSetIsReady ==
    /\ op.pc = "restic"
    /\ Poll("daemonset", "failed to wait for Velero restic daemonset to be ready.", "done")
    /\ UNCHANGED <<kube, nfsVars, schedVars, formVars, engineVars, setup, scan>>

\* the operation has returned, the next may start
OperationReturns ==
    /\ op.pc = "done"
    /\ op' = OpIdle
    /\ UNCHANGED <<kube, nfsVars, schedVars, formVars, engineVars, setup, scan>>

\* -------------------------------------------------------- specifications

\* no configuration or status request is followed in steps
InitNoRun ==
    /\ run = RunIdle
    /\ calls = <<>>

InitCluster ==
    /\ nfsRecorded = NoNFS
    /\ nfsCreds = 0
    /\ veleroInstalled \in BOOLEAN
    /\ globalStore = ""
    /\ hpc = [s \in Sessions |-> "idle"]
    /\ req = [s \in Sessions |-> NoRequest]
    /\ dec = [s \in Sessions |-> ""]
    /\ nfsErr = [s \in Sessions |-> "nil"]
    /\ resp = [s \in Sessions |-> NoResponse]
    /\ web = [s \in Sessions |-> [showResetNFSWarningModal |-> FALSE, showConfigureNFSModal |-> FALSE]]
    /\ cli = CLIIdle

\* nothing is scheduled, no retention is set
InitStore ==
    /\ snapshotSchedule = [w \in Workloads |-> ""]
    /\ snapshotTTL = [w \in Workloads |-> 0]
    /\ pending = {}
    /\ now = 1
    /\ save = [s \in Sessions |-> SaveIdle]
    /\ history = [failed |-> FALSE, under |-> [w \in Workloads |-> ""]]

\* the form is constructed, its props carry a persisted store
InitForm ==
    /\ snapshotSettings \in [store : Stores, nfsConfig : {[path |-> "p", server |-> "s"]}]
    /\ form = FormInit
    /\ edits = 0
    /\ payload = NoPayload

\* no operation on the engine's images is followed
InitNoOp ==
    /\ kube = NoObjects
    /\ op = OpIdle

\* DetectVelero is not running
InitNoScan == scan = ScanIdle

\* no storage destination form is open
InitNoForm ==
    /\ snapshotSettings = [store |-> StoreOf("", [none |-> "true"]),
                           nfsConfig |-> [path |-> "", server |-> ""]]
    /\ form = FormInit
    /\ edits = 0
    /\ payload = NoPayload

NextNFS ==
    \/ \E s \in Sessions :
        \/ toggleConfigureNFSModal(s)
        \/ onSubmit(s)
        \/ configureNFSClick(s)
        \/ forceSnapshotProviderNFS(s)
        \/ forceConfigureNFS(s)
        \/ hideResetNFSWarningModal(s)
        \/ updateSettingsResponse(s)
        \/ configureNFSResponse(s)
        \/ ConfigureNFSSnapshots(s)
        \/ UpdateGlobalSnapshotSettings(s)
        \/ DeployNFSMinio(s)
        \/ ConfigureNFSSnapshotsVelero(s)
        \/ UpdateGlobalSnapshotSettingsStore(s)
    \/ BackupConfigureNFSCmd
    \/ promptForNFSReset
    \/ BackupConfigureNFSCmdRedeploy
    \/ CLIDeployNFSMinio
    \/ BackupConfigureNFSCmdVelero

\* one browser and the CLI, requests are served one at a time
InitNFSSeq == InitCluster /\ InitStore /\ InitNoForm /\ InitNoRun /\ InitNoOp /\ InitNoScan /\ clients = {"w1"} /\ maxActive = 1
SpecNFSSeq == InitNFSSeq /\ [][NextNFS]_vars

\* two browsers and the CLI, a goroutine per request
InitNFS == InitCluster /\ InitStore /\ InitNoForm /\ InitNoRun /\ InitNoOp /\ InitNoScan /\ clients = Sessions /\ maxActive = 2
SpecNFS == InitNFS /\ [][NextNFS]_vars

NextSched ==
    \/ \E s \in Sessions :
        \/ SaveSnapshotConfig(s)
        \/ SaveInstanceSnapshotConfig(s)
        \/ GetSnapshotConfig(s)
        \/ GetInstanceSnapshotConfig(s)
        \/ SaveResponse(s)
    \/ StartScheduledSnapshot
    \/ Tick

\* one browser saves schedules, requests are served one at a time
InitSched == InitCluster /\ ~veleroInstalled /\ InitStore /\ InitNoForm /\ InitNoRun /\ InitNoOp /\ InitNoScan /\ clients = {"w1"} /\ maxActive = 1
SpecSched == InitSched /\ [][NextSched]_vars

\* the save requests alone, one at a time: no executor takes a scheduled
\* snapshot away
NextSave ==
    \/ \E s \in Sessions :
        \/ SaveSnapshotConfig(s)
        \/ SaveInstanceSnapshotConfig(s)
        \/ SaveResponse(s)
    \/ Tick
SpecSave == InitSched /\ [][NextSave]_vars

\* two browsers save a schedule each, and the server runs a goroutine for
\* each of the two requests
NextSaveConcurrent ==
    \E s \in Sessions :
        \/ SaveSnapshotConfig(s)
        \/ SaveInstanceSnapshotConfig(s)
InitSaveConcurrent ==
    /\ InitCluster /\ ~veleroInstalled /\ InitStore /\ InitNoForm /\ InitNoRun /\ InitNoOp
    /\ InitNoScan /\ clients = Sessions /\ maxActive = 2
SpecSaveConcurrent == InitSaveConcurrent /\ [][NextSaveConcurrent]_vars

\* a request to each of the two save operations, on an application and an
\* instance that have the same schedule, retention and scheduled snapshots
InitSaveBoth ==
    /\ InitCluster /\ ~veleroInstalled /\ InitNoForm /\ InitNoRun /\ InitNoOp
    /\ InitNoScan /\ clients = Sessions /\ maxActive = 2
    /\ now = 1
    /\ save = [s \in Sessions |-> SaveIdle]
    /\ \E schedule \in {"", Weekly}, ttl \in {0, FormatTTL("1", "week").ttl} :
         /\ snapshotSchedule = [w \in Workloads |-> schedule]
         /\ snapshotTTL = [w \in Workloads |-> ttl]
         /\ pending = IF schedule = "" THEN {}
                      ELSE {[id |-> 1, owner |-> w, at |-> CronNext(schedule, 1)] : w \in Workloads}
         /\ history = [failed |-> FALSE, under |-> [w \in Workloads |-> schedule]]
SpecSaveBoth == InitSaveBoth /\ [][NextSaveConcurrent]_vars

NextForm ==
    \/ componentDidMount
    \/ componentDidUpdate
    \/ handleFormChange
    \/ onGcsEditorChange
    \/ handleAzureCloudNameChange
    \/ handleDestinationChange
    \/ snapshotProviderAWS
    \/ snapshotProviderAzure
    \/ snapshotProviderGoogle
    \/ snapshotProviderS3Compatible
    \/ updateSettingsDone

\* one storage destination form, no request of another kind
InitFormOnly ==
    /\ InitCluster /\ ~veleroInstalled /\ InitStore /\ InitForm /\ InitNoRun /\ InitNoOp /\ InitNoScan
    /\ clients = {"w1"} /\ maxActive = 1
SpecForm == InitFormOnly /\ [][NextForm]_vars

NextEngine ==
    \/ ConfigureNFSSnapshotsReconcile
    \/ BackupConfigureNFSCmdReconcile
    \/ ConfigureDetectVeleroNamespace
    \/ InstallVeleroFromStoreNFS
    \/ ConfigureVeleroImages
    \/ ConfigureStore
    \/ WaitForVeleroReady
    \/ GetGlobalSnapshotSettings
    \/ DetectVeleroDeployments
    \/ DetectVeleroDaemonsets
    \/ RequestReturns

\* one request at a time, followed through its calls to the cluster
InitEngine ==
    /\ InitCluster /\ ~veleroInstalled /\ InitStore /\ InitNoForm /\ InitNoRun /\ InitNoOp /\ InitNoScan
    /\ clients = {"w1"} /\ maxActive = 1
SpecEngine == InitEngine /\ [][NextEngine]_vars

NextImages ==
    \/ InstallVeleroResources
    \/ InstallVeleroInstall
    \/ ConfigureVeleroImagesOnly
    \/ InstallVeleroConfigureImages
    \/ EnsurePrivateKotsadmRegistrySecret
    \/ UpdateVeleroDeployment
    \/ UpdateResticConfigMap
    \/ UpdateResticDaemonSet
    \/ WaitForVeleroReadyOnly
    \/ WaitForDeploymentReady
    \/ DeploymentIsReady
    \/ DaemonSetIsReady
    \/ OperationReturns

\* the engine's namespace as an operation finds it: nothing, or workloads
\* that were installed before
InitImages ==
    /\ InitCluster /\ ~veleroInstalled /\ InitStore /\ InitNoForm /\ InitNoRun
    /\ clients = {"w1"} /\ maxActive = 1
    /\ kube \in [deployment : VeleroDeployments, daemonset : ResticDaemonSets,
                 configMap : ConfigMaps, secret : {FALSE}]
    /\ op = OpIdle
    /\ InitNoScan
SpecImages == InitImages /\ [][NextImages]_vars

\* ConfigureVeleroImages may be run a second time with the options of the first
NextImagesAgain ==
    \/ InstallVeleroResources
    \/ InstallVeleroInstall
    \/ ConfigureVeleroImagesOnly
    \/ ConfigureVeleroImagesAgain
    \/ InstallVeleroConfigureImages
    \/ EnsurePrivateKotsadmRegistrySecret
    \/ UpdateVeleroDeployment
    \/ UpdateResticConfigMap
    \/ UpdateResticDaemonSet
    \/ WaitForVeleroReadyOnly
    \/ WaitForDeploymentReady
    \/ DeploymentIsReady
    \/ DaemonSetIsReady
    \/ OperationReturns
SpecImagesAgain == InitImages /\ [][NextImagesAgain]_vars

\* DetectVelero's loop, for every namespace of up to MaxDeployments deployments
NextDetect == DetectVeleroList \/ DetectVeleroPlugins
InitDetect ==
    /\ InitCluster /\ veleroInstalled /\ InitStore /\ InitNoForm /\ InitNoRun /\ InitNoOp
    /\ clients = {"w1"} /\ maxActive = 1
    /\ \E deployments \in SeqsUpTo(LabelledDeployments, MaxDeployments) :
         scan = [ScanIdle EXCEPT !.deployments = deployments]
SpecDetect == InitDetect /\ [][NextDetect]_vars

\* the goroutine that waits keeps running
SpecImagesWait ==
    /\ SpecImages
    /\ WF_vars(WaitForDeploymentReady)
    /\ WF_vars(DeploymentIsReady)
    /\ WF_vars(DaemonSetIsReady)

\* ------------------------------------------------------- claims C1 - C7

\* the step in which the handler serving s calls configureNFSMinio (or
\* answers before it gets there)
HandlerStarts(s) == hpc[s] = "sent" /\ hpc'[s] # "sent"

\* the step in which DeployNFSMinio, called for s, applies and returns
DeployReturns(s) == hpc[s] = "deploy" /\ hpc'[s] # "deploy"

\* C1: with the backend deployed against A, a reconcile for B # A without
\* forceReset is decided as the conflict error ResetNFSError; the call never
\* gets to apply anything, the request is not answered as a success, and the
\* recorded NFSConfig stays A. The same holds for the first call of the CLI.
C1_ConflictWithoutForce ==
    [][/\ \A s \in Sessions :
            (/\ HandlerStarts(s)
             /\ req[s].hasNFS /\ ~req[s].forceReset
             /\ nfsRecorded # NoNFS /\ nfsRecorded # req[s].nfs)
            => /\ DeployNFSMinioDecision(nfsRecorded, configureNFSMinio(req[s])) = "ResetNFSError"
               /\ hpc'[s] = "responded"
               /\ nfsErr'[s] \in {"ResetNFSError", "other", "nil"}
               /\ nfsErr'[s] = "nil" => resp'[s].status \in {200, 500}
               /\ ~resp'[s].success
               /\ nfsRecorded' = nfsRecorded
       /\ (/\ cli.pc = "idle" /\ cli'.pc # "idle"
           /\ nfsRecorded # NoNFS /\ nfsRecorded # cli'.deployOptions.NFSConfig)
          => /\ cli'.pc = "prompt"
             /\ nfsRecorded' = nfsRecorded
      ]_vars

C1_Witness ==
    \E s \in Sessions :
        /\ hpc[s] = "responded" /\ nfsErr[s] = "ResetNFSError" /\ resp[s].status = 409
        /\ ~req[s].forceReset
        /\ nfsRecorded # NoNFS /\ nfsRecorded # req[s].nfs

\* C2: with the backend deployed against A, a reconcile for B # A with
\* forceReset never fails with the conflict error and, unless a cluster call
\* fails, records B and replaces the credentials; a reconcile for the
\* recorded share without forceReset never conflicts and changes neither the
\* recorded share nor the credentials. Handlers and CLI alike.
C2_ForcedResetThenNoop ==
    [][/\ \A s \in Sessions :
            /\ (HandlerStarts(s) /\ req[s].hasNFS /\ req[s].forceReset
                  /\ nfsRecorded # NoNFS /\ nfsRecorded # req[s].nfs)
               => /\ nfsErr'[s] # "ResetNFSError"
                  /\ hpc'[s] = "deploy" => dec'[s] = "reset"
            /\ (DeployReturns(s) /\ dec[s] = "reset" /\ hpc'[s] = "engine")
               => /\ nfsRecorded' = req[s].nfs
                  /\ nfsCreds' # nfsCreds
            /\ (HandlerStarts(s) /\ req[s].hasNFS /\ ~req[s].forceReset
                  /\ nfsRecorded = req[s].nfs)
               => /\ nfsErr'[s] # "ResetNFSError"
                  /\ hpc'[s] = "deploy" => dec'[s] = "noop"
            /\ (DeployReturns(s) /\ dec[s] = "noop")
               => /\ nfsRecorded' = nfsRecorded
                  /\ nfsCreds' = nfsCreds
       /\ (cli.pc = "force" /\ cli'.pc # "force")
          => /\ ~cli'.conflict
             /\ cli'.pc = "deploy"
                => /\ cli'.deployOptions.NFSConfig = cli.deployOptions.NFSConfig
                   /\ cli'.dec = IF nfsRecorded = NoNFS THEN "create"
                                 ELSE IF nfsRecorded = cli.deployOptions.NFSConfig THEN "noop"
                                 ELSE "reset"
       /\ (cli.pc = "deploy" /\ cli'.pc = "engine" /\ cli.dec = "reset")
          => /\ nfsRecorded' = cli.deployOptions.NFSConfig
             /\ nfsCreds' # nfsCreds
       /\ (cli.pc = "deploy" /\ cli'.pc = "engine" /\ cli.dec = "noop")
          => /\ nfsRecorded' = nfsRecorded
             /\ nfsCreds' = nfsCreds
      ]_vars

\* the backend has been reset by force, and a later reconcile without
\* forceReset for the share it now records has come back without an error
C2_Witness ==
    /\ nfsCreds > 1
    /\ \E s \in Sessions :
        /\ hpc[s] = "engine" /\ dec[s] = "noop" /\ ~req[s].forceReset
        /\ req[s].nfs = nfsRecorded /\ nfsErr[s] = "nil"

\* C3: a reconcile without forceReset for the share that is already recorded
\* is decided as a no-op, returns without the conflict error and leaves the
\* whole cluster state (recorded share, credentials, engine, store) as it
\* was, every time it is repeated.
C3_IdempotentSameShare ==
    [][/\ \A s \in Sessions :
            /\ (HandlerStarts(s) /\ req[s].hasNFS /\ ~req[s].forceReset
                  /\ nfsRecorded # NoNFS /\ nfsRecorded = req[s].nfs)
               => /\ DeployNFSMinioDecision(nfsRecorded, configureNFSMinio(req[s])) = "noop"
                  /\ nfsErr'[s] \in {"nil", "other"}
                  /\ resp'[s].status # 409
                  /\ UNCHANGED <<nfsRecorded, nfsCreds, veleroInstalled, globalStore>>
            /\ (DeployReturns(s) /\ dec[s] = "noop")
               => /\ UNCHANGED <<nfsRecorded, nfsCreds, veleroInstalled, globalStore>>
                  /\ resp'[s].status # 409
       /\ (cli.pc = "idle" /\ cli'.pc # "idle" /\ nfsRecorded # NoNFS
             /\ nfsRecorded = cli'.deployOptions.NFSConfig)
          => /\ cli'.pc = "deploy" /\ cli'.dec = "noop"
             /\ UNCHANGED <<nfsRecorded, nfsCreds, veleroInstalled, globalStore>>
       /\ (cli.pc = "deploy" /\ cli'.pc # "deploy" /\ cli.dec = "noop")
          => UNCHANGED <<nfsRecorded, nfsCreds, veleroInstalled, globalStore>>
      ]_vars

\* a no-op reconcile has returned to its handler with the share unchanged
C3_Witness ==
    \E s \in Sessions :
        /\ hpc[s] = "engine" /\ dec[s] = "noop" /\ ~req[s].forceReset
        /\ nfsRecorded # NoNFS /\ req[s].nfs = nfsRecorded
        /\ nfsErr[s] = "nil" /\ nfsCreds = 1

\* C4: a recorded NFSConfig is replaced by a different one only by an
\* invocation whose caller asked for forceReset (the request's forceReset, or
\* the CLI after the answer "y"); every other change of the recorded NFSConfig
\* is a fresh creation on a cluster without a deployment.
C4_ChangeOnlyByForce ==
    [][(nfsRecorded' # nfsRecorded /\ nfsRecorded # NoNFS)
       => \/ \E s \in Sessions :
                /\ DeployReturns(s)
                /\ req[s].forceReset
                /\ nfsRecorded' = req[s].nfs
          \/ /\ cli.pc = "deploy" /\ cli'.pc = "engine"
             /\ cli.deployOptions.ForceReset /\ cli.answer = "y"
             /\ nfsRecorded' = cli.deployOptions.NFSConfig
      ]_vars

\* a request with forceReset has replaced the recorded share
C4_Witness ==
    \E s \in Sessions :
        /\ hpc[s] = "engine" /\ dec[s] = "reset" /\ req[s].forceReset
        /\ nfsRecorded = req[s].nfs /\ nfsCreds > 1

\* C5: at most one handler goroutine is inside DeployNFSMinio at any time.
C5_ReconcileSerialized == Cardinality(InDeploy) <= 1

\* C6: a handler answers 409 (with the reset warning) exactly when
\* configureNFSMinio failed with a ResetNFSError cause; any other failure of
\* it is answered 500; no failure of it is answered as a success.
C6_ConflictDistinguished ==
    \A s \in Sessions :
        hpc[s] = "responded"
        => /\ resp[s].status = 409 <=> nfsErr[s] = "ResetNFSError"
           /\ resp[s].conflict <=> nfsErr[s] = "ResetNFSError"
           /\ nfsErr[s] = "other" => resp[s].status = 500
           /\ nfsErr[s] # "nil" => ~resp[s].success

\* one request answered 409 for a conflict, another 500 for another failure
C6_Witness ==
    \E s, t \in Sessions :
        /\ hpc[s] = "responded" /\ nfsErr[s] = "ResetNFSError" /\ resp[s].status = 409
        /\ req[s].handler = "ConfigureNFSSnapshots"
        /\ hpc[t] = "responded" /\ nfsErr[t] = "other" /\ resp[t].status = 500
        /\ req[t].handler = "UpdateGlobalSnapshotSettings"

\* C7: a caller asks for forceReset only after a conflict and a confirmation.
\* Web client: a request with forceReset is sent only from the open warning
\* dialog, and the dialog is opened only by a 409 answer to a request without
\* forceReset. CLI: the first call has ForceReset unset, the prompt is
\* reached only by a conflict of that call, the second call is made only
\* after the answer "y" and "n" or an interrupt end the command.
C7_ForceOnlyAfterConfirmedConflict ==
    [][/\ \A s \in Sessions :
            /\ (hpc[s] = "idle" /\ hpc'[s] = "sent" /\ req'[s].forceReset)
               => /\ web[s].showResetNFSWarningModal
                  /\ ~web'[s].showResetNFSWarningModal
                  /\ req'[s].nfs = req[s].nfs
            /\ (~web[s].showResetNFSWarningModal /\ web'[s].showResetNFSWarningModal)
               => /\ hpc[s] = "responded" /\ resp[s].status = 409
                  /\ nfsErr[s] = "ResetNFSError"
                  /\ ~req[s].forceReset
       /\ (cli.pc = "idle" /\ cli'.pc # "idle") => ~cli'.deployOptions.ForceReset
       /\ (cli.pc # "prompt" /\ cli'.pc = "prompt")
          => /\ cli.pc = "idle"
             /\ nfsRecorded \notin {NoNFS, cli'.deployOptions.NFSConfig}
       /\ (cli.pc # "force" /\ cli'.pc = "force")
          => cli.pc = "prompt" /\ cli'.answer = "y"
       /\ (cli'.pc = "deploy" /\ cli.pc # "deploy" /\ cli'.deployOptions.ForceReset)
          => cli.pc = "force" /\ cli.answer = "y"
       /\ (cli.pc = "prompt" /\ cli'.pc # "prompt") => cli' = CLIIdle \/ cli'.pc = "force"
      ]_vars

\* a forced request is being served while the CLI runs its forced call
C7_Witness ==
    /\ cli.pc = "deploy" /\ cli.deployOptions.ForceReset /\ cli.answer = "y"
    /\ \E s \in Sessions : hpc[s] = "sent" /\ req[s].forceReset

\* ------------------------------------------------------ claims C8 - C10

\* the step in which the handler serving s answers its save request with
\* success; the answered request is save'[s]
SaveCompletes(s) == save[s].pc # "done" /\ save'[s].pc = "done" /\ save'[s].success

\* C8: when a save request with auto-scheduling on and a valid cron expression
\* that differs from the stored one completes successfully, none of the
\* workload's pending requests from before the request is left, the stored
\* schedule is the submitted expression, and the workload has exactly one
\* pending request, at the first time after now at which the expression fires.
C8_NewSchedule ==
    [][\A s \in Sessions :
         (/\ SaveCompletes(s)
          /\ save'[s].autoEnabled
          /\ save'[s].schedule \in {Weekly, Daily, Never}
          /\ save'[s].schedule # save'[s].app.SnapshotSchedule)
         => LET w == save'[s].app.ID
                expr == save'[s].schedule
                mine == {p \in pending' : p.owner = w}
            IN /\ mine \cap save'[s].before = {}
               /\ snapshotSchedule'[w] = expr
               /\ Cardinality(mine) = 1
               /\ \A p \in mine :
                    /\ p.at > now
                    /\ CronMatches(expr, p.at)
                    /\ \A d \in (now + 1)..(p.at - 1) : ~CronMatches(expr, d)
      ]_vars

\* C9: no step of a save request with auto-scheduling on whose cron
\* expression equals the stored one creates or deletes a pending request or
\* changes a stored schedule; of the store it changes at most the retention
\* of its own workload.
C9_SameSchedule ==
    [][\A s \in Sessions :
         (/\ save'[s] # save[s]
          /\ save'[s].pc # "idle"
          /\ save'[s].autoEnabled
          /\ save'[s].schedule = save'[s].app.SnapshotSchedule)
         => /\ pending' = pending
            /\ snapshotSchedule' = snapshotSchedule
            /\ \A w \in Workloads \ {save'[s].app.ID} : snapshotTTL'[w] = snapshotTTL[w]
      ]_vars

\* a request with the stored schedule has succeeded: the workload's pending
\* request is the one from before, the retention is another
C9_Witness ==
    \E s \in Sessions :
        /\ save[s].pc = "done" /\ save[s].success /\ save[s].autoEnabled
        /\ save[s].schedule = save[s].app.SnapshotSchedule
        /\ snapshotSchedule[save[s].app.ID] = save[s].schedule
        /\ save[s].before # {}
        /\ PendingOf(save[s].app.ID) = save[s].before
        /\ snapshotTTL[save[s].app.ID] # save[s].app.SnapshotTTL

\* C10: when a save request with auto-scheduling off completes successfully,
\* the workload's stored schedule is empty and it has no pending request.
C10_AutoOff ==
    [][\A s \in Sessions :
         (SaveCompletes(s) /\ ~save'[s].autoEnabled)
         => /\ snapshotSchedule'[save'[s].app.ID] = ""
            /\ {p \in pending' : p.owner = save'[s].app.ID} = {}
      ]_vars

\* a request with auto-scheduling off has succeeded for a workload that had a
\* schedule and a pending request
C10_Witness ==
    \E s \in Sessions :
        /\ save[s].pc = "done" /\ save[s].success /\ ~save[s].autoEnabled
        /\ save[s].app.SnapshotSchedule # ""
        /\ save[s].before # {}
        /\ snapshotSchedule[save[s].app.ID] = ""
        /\ PendingOf(save[s].app.ID) = {}

\* ----------------------------------------------------- claims C11 - C12

\* the step in which the handler serving s rejects (400) a request with
\* auto-scheduling on whose cron expression does not parse
SaveRejectsCron(s) ==
    /\ save[s].pc # "done" /\ save'[s].pc = "done" /\ save'[s].status = 400
    /\ save'[s].autoEnabled
    /\ ~CronParserParse(save'[s].schedule)

\* C11: when a save request with auto-scheduling on is rejected for its cron
\* expression, the workload's stored schedule and stored retention are the
\* ones the request read at its start and no pending request of the workload
\* has been added (the requests are served one at a time, so nothing else
\* writes the store in between; the executor may only have taken one away).
C11_InvalidCronNoMutation ==
    [][\A s \in Sessions :
         SaveRejectsCron(s)
         => LET w == save'[s].app.ID
            IN /\ snapshotSchedule'[w] = save'[s].app.SnapshotSchedule
               /\ snapshotTTL'[w] = save'[s].app.SnapshotTTL
               /\ {p \in pending' : p.owner = w} \subseteq save'[s].before
      ]_vars

\* C12: with the save requests served one at a time and none of them answered
\* 500 so far, whenever no request is in progress every workload has one
\* stored schedule (possibly the empty one) and at most one scheduled
\* snapshot that has not been started, and that one was created under the
\* schedule that is stored now, not under one that has been replaced.
C12_OneScheduleOnePending ==
    (SaveInFlight = {} /\ ~history.failed)
    => \A w \in Workloads :
         /\ snapshotSchedule[w] \in Schedules
         /\ Cardinality(PendingOf(w)) <= 1
         /\ \A p \in PendingOf(w) : history.under[w] = snapshotSchedule[w]

\* a request has replaced a schedule under which a snapshot was scheduled:
\* that one is gone, the one that is there was created under the new schedule
C12_Witness ==
    /\ ~history.failed
    /\ \E s \in Sessions :
         LET w == save[s].app.ID
         IN /\ save[s].pc = "done" /\ save[s].success /\ save[s].autoEnabled
            /\ save[s].app.SnapshotSchedule \in {Weekly, Daily}
            /\ save[s].schedule # save[s].app.SnapshotSchedule
            /\ save[s].before # {}
            /\ Cardinality(PendingOf(w)) = 1
            /\ PendingOf(w) \cap save[s].before = {}
            /\ history.under[w] = save[s].schedule

\* ----------------------------------------------------- claims C13 - C14

\* the form holds what setFields loads from the persisted store, unedited
LoadedUnedited ==
    /\ form.determiningDestination = "false"
    /\ form = setFields(snapshotSettings, form)

\* C13: whenever the form holds the persisted store of a cloud provider as
\* loaded, without edits, checkForStoreChanges for that provider reports no
\* change.
C13_NoChangeWhenLoaded ==
    (LoadedUnedited /\ snapshotSettings.store.provider \in {"aws", "gcp", "azure", "other"})
    => checkForStoreChanges(form, snapshotSettings.store.provider) = "false"

\* the fields of the persisted store that are compared for a provider, each
\* with the form field it is compared with
ComparedFields(provider) ==
    CASE provider = "aws" ->
           {<<"region", "s3Region">>, <<"accessKeyID", "s3KeyId">>,
            <<"secretAccessKey", "s3KeySecret">>, <<"useInstanceRole", "useIamAws">>}
      [] provider = "gcp" ->
           {<<"useInstanceRole", "gcsUseIam">>, <<"serviceAccount", "gcsServiceAccount">>,
            <<"jsonFile", "gcsJsonFile">>}
      [] provider = "azure" ->
           {<<"resourceGroup", "azureResourceGroupName">>,
            <<"storageAccount", "azureStorageAccountId">>,
            <<"subscriptionId", "azureSubscriptionId">>, <<"tenantId", "azureTenantId">>,
            <<"clientId", "azureClientId">>, <<"clientSecret", "azureClientSecret">>,
            <<"cloudName", "selectedAzureCloudName">>}
      [] provider = "other" ->
           {<<"region", "s3CompatibleRegion">>, <<"accessKeyID", "s3CompatibleKeyId">>,
            <<"secretAccessKey", "s3CompatibleKeySecret">>,
            <<"endpoint", "s3CompatibleEndpoint">>}

\* C14: when the form is submitted for a cloud provider, the payload carries
\* the provider's sub-object exactly when a compared field of that provider
\* differs between the form and the persisted store, and otherwise carries
\* provider, bucket and path only; building it raises no error and changes
\* neither the form nor the persisted store.
C14_SubObjectIffFieldDiffers ==
    [][(payload = NoPayload /\ payload' # NoPayload)
       => LET provider == payload'.provider
              differs == \E pair \in ComparedFields(provider) :
                            StoreField(provider, pair[1]) # form[pair[2]]
          IN /\ payload'.error = ""
             /\ differs => /\ payload'.keys = {"provider", "bucket", "path", provider}
                            /\ payload'.sub = ProviderStore(form, provider)
             /\ ~differs => payload'.keys = {"provider", "bucket", "path"}
             /\ UNCHANGED <<snapshotSettings, form, edits, nfsVars, schedVars>>
      ]_vars

\* a form that was edited is submitted with every compared field equal to the
\* persisted store: the payload carries no sub-object
C14_Witness ==
    /\ payload.provider = "aws" /\ snapshotSettings.store.provider = "aws"
    /\ payload.keys = {"provider", "bucket", "path"}
    /\ edits = MaxEdits
    /\ form.s3bucket # snapshotSettings.store.bucket

\* ------------------------------------------------------ claims C15 - C20

EngineCalls == {"InstallVelero", "ConfigureVeleroImages", "ConfigureStore"}

\* the names of the calls made so far
CallNames == {calls[i][1] : i \in 1..Len(calls)}

\* C15: in an NFS configuration request (handler or command) an engine step
\* (InstallVelero, ConfigureVeleroImages, ConfigureStore) is called only
\* after the request's last DeployNFSMinio returned nil; the install is
\* called exactly when no engine namespace was detected, the configuration
\* of images and store exactly when one was, and never both in one request.
C15_ReconcileBeforeEngine ==
    /\ \A i \in 1..Len(calls) :
         calls[i][1] \in EngineCalls =>
           /\ \E j \in 1..(i - 1) :
                /\ calls[j] = <<"DeployNFSMinio", "nil">>
                /\ \A k \in (j + 1)..(i - 1) : calls[k][1] # "DeployNFSMinio"
           /\ \E j \in 1..(i - 1) : calls[j] = <<"DetectVeleroNamespace", "nil">>
           /\ (calls[i][1] = "InstallVelero") <=> (run.veleroNamespace = "")
    /\ ~({"InstallVelero"} \subseteq CallNames /\ CallNames \cap {"ConfigureVeleroImages", "ConfigureStore"} # {})
    /\ (run.pc = "done" /\ run.response.success /\ run.caller # "GetGlobalSnapshotSettings")
         => \/ {"InstallVelero"} \subseteq CallNames
            \/ {"ConfigureVeleroImages", "ConfigureStore"} \subseteq CallNames

\* the command, after a confirmed reset, has configured images and store
C15_Witness ==
    /\ run.caller = "BackupConfigureNFSCmd"
    /\ run.pc = "done"
    /\ Len(calls) = 5
    /\ calls[1] = <<"DeployNFSMinio", "ResetNFSError">>
    /\ calls[2] = <<"DeployNFSMinio", "nil">>
    /\ calls[5] = <<"ConfigureStore", "nil">>
    /\ run.veleroNamespace = "backup"

\* C16: ConfigureNFSSnapshots answers success = true only if every step of
\* its path returned nil: the backend reconcile, the detection of the
\* engine's namespace, and either the install or all of the image
\* configuration, the store configuration and the readiness wait; a failure
\* of the installer or of the image configuration ends with success = false.
C16_SuccessOnlyIfAllSteps ==
    (run.caller = "ConfigureNFSSnapshots" /\ run.pc = "done") =>
        /\ run.response.success =>
              /\ run.response.status = 200
              /\ calls \in
                   {<<<<"DeployNFSMinio", "nil">>, <<"DetectVeleroNamespace", "nil">>,
                      <<"InstallVelero", "nil">>>>,
                    <<<<"DeployNFSMinio", "nil">>, <<"DetectVeleroNamespace", "nil">>,
                      <<"ConfigureVeleroImages", "nil">>, <<"ConfigureStore", "nil">>,
                      <<"WaitForVeleroReady", "nil">>>>}
        /\ (\E i \in 1..Len(calls) :
               calls[i][1] \in {"InstallVelero", "ConfigureVeleroImages"} /\ calls[i][2] # "nil")
             => ~run.response.success /\ run.response.status = 500

\* the handler answers success after images, store and wait
C16_Witness ==
    /\ run.caller = "ConfigureNFSSnapshots"
    /\ run.pc = "done"
    /\ run.response.success
    /\ Len(calls) = 5
    /\ calls[5] = <<"WaitForVeleroReady", "nil">>

\* the request configured images and store, and only the wait timed out
OnlyWaitTimedOut ==
    /\ run.pc = "done"
    /\ Len(calls) >= 3
    /\ calls[Len(calls) - 2] = <<"ConfigureVeleroImages", "nil">>
    /\ calls[Len(calls) - 1] = <<"ConfigureStore", "nil">>
    /\ calls[Len(calls)] = <<"WaitForVeleroReady", "timeout">>

\* C17: when images and store have been configured and only
\* WaitForVeleroReady times out, the request is not reported as failed: the
\* handler does not answer 500 and the command does not return an error.
C17_WaitTimeoutNotFatal ==
    OnlyWaitTimedOut => run.response.status \notin {500, 1} /\ run.response.error = ""

\* the step in which a request calls DetectVeleroNamespace and it returns
DetectsNamespace ==
    /\ run.pc \in {"idle", "namespace"}
    /\ run'.pc \notin {"idle", "namespace"}
    /\ \/ run'.caller = "GetGlobalSnapshotSettings" /\ run'.response.error = ""
       \/ /\ run'.caller # "GetGlobalSnapshotSettings"
          /\ Len(calls') > 0
          /\ calls'[Len(calls')] = <<"DetectVeleroNamespace", "nil">>

\* C18: DetectVeleroNamespace does not fail because of the listing of the
\* backup storage locations: when the listing returns an error, or no
\* location named "default", the namespace returned is empty and the error
\* nil; the namespace is non-empty exactly when a location named "default"
\* is listed, and it is the namespace of the first such location.
C18_ListingNeverFails ==
    /\ \A cfgErr \in ConfigErrors, l \in BackupStorageLocationLists :
         DetectVeleroNamespace(cfgErr, l).err = cfgErr
    /\ [][LET list == run'.backupStorageLocations
               defaults == {i \in 1..Len(list.Items) : list.Items[i].Name = "default"}
           IN DetectsNamespace =>
                /\ (list.err # "nil" \/ defaults = {}) => run'.veleroNamespace = ""
                /\ (run'.veleroNamespace # "") <=> (list.err = "nil" /\ defaults # {})
                /\ defaults # {} => run'.veleroNamespace = list.Items[First(defaults)].Namespace
                /\ run'.caller = "GetGlobalSnapshotSettings" =>
                     (run'.veleroStatus.isNil <=> run'.veleroNamespace = "")
                /\ run'.caller # "GetGlobalSnapshotSettings" =>
                     (run'.pc = "install" <=> run'.veleroNamespace = "")]_vars

\* two locations are listed, the second is the one named "default"
C18_Witness ==
    /\ run.pc = "images"
    /\ Len(run.backupStorageLocations.Items) = 2
    /\ run.backupStorageLocations.Items[1].Name = "aws"
    /\ run.backupStorageLocations.Items[2] = [Name |-> "default", Namespace |-> "backup"]
    /\ run.veleroNamespace = "backup"

\* DetectVelero has returned to GetGlobalSnapshotSettings without an error
DetectVeleroReturned ==
    /\ run.caller = "GetGlobalSnapshotSettings"
    /\ run.pc = "done"
    /\ run.response.error # "failed to detect velero"

\* C19: when no deployment and no daemonset is listed under either label
\* convention, DetectVelero returns a nil status and no error, also when a
\* backup storage location named "default" exists.
C19_NoWorkloadsNotInstalled ==
    (DetectVeleroReturned /\ run.listed = 0) => run.veleroStatus.isNil

\* C20: the engine's status is Ready iff the matched deployment has at least
\* one available replica, the companion's status is Ready iff the matched
\* daemonset has at least one available and no unavailable instance, a
\* matched workload that is not Ready is NotReady; GetGlobalSnapshotSettings
\* answers isVeleroRunning / isResticRunning true iff the status is Ready.
C20_HealthFollowsReplicas ==
    /\ run.pc = "daemonsets" =>
         /\ (run.veleroStatus.Status = "Ready") <=>
              (run.deployment # NoDeployment /\ run.deployment.AvailableReplicas >= 1)
         /\ run.deployment # NoDeployment => run.veleroStatus.Status \in {"Ready", "NotReady"}
    /\ (DetectVeleroReturned /\ ~run.veleroStatus.isNil) =>
         /\ (run.veleroStatus.Status = "Ready") <=>
              (run.deployment # NoDeployment /\ run.deployment.AvailableReplicas >= 1)
         /\ (run.veleroStatus.ResticStatus = "Ready") <=>
              (/\ run.daemonset # NoDaemonSet
               /\ run.daemonset.NumberAvailable >= 1
               /\ run.daemonset.NumberUnavailable = 0)
         /\ run.daemonset # NoDaemonSet => run.veleroStatus.ResticStatus \in {"Ready", "NotReady"}
         /\ run.response.isVeleroRunning <=> (run.veleroStatus.Status = "Ready")
         /\ run.response.isResticRunning <=> (run.veleroStatus.ResticStatus = "Ready")

\* the engine runs, the companion found has an unavailable instance
C20_Witness ==
    /\ DetectVeleroReturned
    /\ run.response.success
    /\ run.response.isVeleroRunning
    /\ ~run.response.isResticRunning
    /\ run.veleroStatus.ResticStatus = "NotReady"
    /\ run.listed = 4
    /\ run.deployment.AvailableReplicas = 1
    /\ run.daemonset.NumberAvailable = 1
    /\ run.daemonset.NumberUnavailable = 1

\* ------------------------------------------------------ claims C21 - C30

\* C21: a deployment found under either label convention counts: when a
\* deployment listed under component=velero or under
\* app.kubernetes.io/name=velero has an image of the expected shape, the
\* status carries the version and the health of such a deployment,
\* whichever listing returned it; when either listing fails, detection
\* returns an error.
C21_EitherLabelCounts ==
    /\ (run.pc = "daemonsets" /\ run.candidates # {}) =>
         /\ run.deployment \in run.candidates
         /\ run.veleroStatus.Version = FindStringSubmatch(run.deployment.Image)[5]
         /\ run.veleroStatus.Version # ""
         /\ run.veleroStatus.Status =
              (IF run.deployment.AvailableReplicas > 0 THEN "Ready" ELSE "NotReady")
    /\ (run.pc = "done" /\ run.listErr # "nil") =>
         /\ run.response.status = 500
         /\ run.response.error = "failed to detect velero"
         /\ run.veleroStatus.isNil
    /\ (run.pc = "daemonsets") => run.listErr = "nil"

\* the two listings returned one deployment between them, of the expected
\* image shape and not available
C21_Witness ==
    /\ run.pc = "daemonsets"
    /\ run.listed = 1
    /\ run.candidates = {run.deployment}
    /\ run.deployment.AvailableReplicas = 0
    /\ run.veleroStatus.Status = "NotReady"

\* the image reference carries a tag or a digest: a ":" or "@" after its
\* last "/"
HasTagOrDigest(image) ==
    \E i \in 1..Len(image) :
        /\ image[i] \in {":", "@"}
        /\ \A j \in i..Len(image) : image[j] # "/"

\* C22: the parser takes the tag or digest of an image reference as the
\* version: "velero/velero:v1.5.1" gives the repository velero/velero and
\* the version v1.5.1; a reference with no tag and no digest gives no
\* version and no status for that workload, and raises no error
C22_VersionIsTagOrDigest ==
    /\ FindStringSubmatch(<<"velero", "/", "velero", ":", "v1.5.1">>)
          = <<"velero/velero:v1.5.1", "velero", "", "velero", "v1.5.1">>
    /\ (run.pc = "daemonsets" /\ ~HasTagOrDigest(run.deployment.Image)) =>
          /\ run.veleroStatus.Version = ""
          /\ run.veleroStatus.Status = ""
    /\ (run.pc = "done" /\ run.veleroNamespace # ""
          /\ run.response.error = "failed to detect velero") => run.listErr # "nil"

\* ----------------------------------------------------- claims C23 - C26

\* the cluster is a kurl cluster with the admin console in the default namespace
KurlDefault(o) == o.isKurl /\ o.kotsadmNamespace = NamespaceDefault

\* the three default images, in the order they are rewritten
DefaultImages ==
    <<defaultVeleroImage, defaultVeleroAWSPluginImage, defaultVeleroResticRestoreHelperImage>>

C24_RewriteAllOrNothing ==
    /\ (op.pc # "idle" /\ ~KurlDefault(op) /\ op.options.unparsed # "") =>
          op.images.finalErr # "nil"
    /\ (op.pc # "idle" /\ op.images.finalErr # "nil") =>
          /\ op.pc = "done"
          /\ op.err = "failed to rewrite images"
          /\ op.accesses = <<>>
          /\ kube = op.before
    /\ (op.pc # "idle" /\ kube # op.before) =>
          /\ op.images.finalErr = "nil"
          /\ op.images.rewritten \in {<<>>, DefaultImages}

\* the velero image was rewritten and its pull secret named when the
\* rewriting of the restore helper's image failed; the engine is installed
C24_Witness ==
    /\ op.pc = "done" /\ op.name = "ConfigureVeleroImages"
    /\ op.images.finalErr = "failed to rewrite restic restore helper image"
    /\ op.images.veleroImage # defaultVeleroImage
    /\ op.images.imagePullSecrets # <<>>
    /\ kube.deployment.exists /\ kube.daemonset.exists /\ kube.configMap.exists

\* the steps in which the Update of a workload succeeds
DeploymentUpdated == op.pc = "deployment" /\ op'.pc = "configmap"
DaemonSetUpdated == op.pc = "daemonset" /\ op'.pc \in {"wait", "done"} /\ op'.err = "nil"

\* containers with the image of the first replaced
WithFirstImage(containers, image) ==
    IF containers = <<>> THEN containers ELSE [containers EXCEPT ![1] = image]

\* C25: applying the rewritten images changes the pull-secrets list, the
\* image of the first init container and the image of the main container of
\* the deployment, and the pull-secrets list and the image of the main
\* container of the daemonset; every other field of the workload, and
\* every other object, is left as it was read
C25_TargetedPatch ==
    [][/\ DeploymentUpdated =>
            kube' = [kube EXCEPT
                       !.deployment.ImagePullSecrets = op.images.imagePullSecrets,
                       !.deployment.InitContainers = WithFirstImage(@, op.images.awsPluginImage),
                       !.deployment.Image = op.images.veleroImage]
       /\ DaemonSetUpdated =>
            kube' = [kube EXCEPT
                       !.daemonset.ImagePullSecrets = op.images.imagePullSecrets,
                       !.daemonset.Image = op.images.veleroImage]
       /\ (op.pc \in {"deployment", "daemonset"} /\ ~DeploymentUpdated /\ ~DaemonSetUpdated) =>
            kube' = kube]_vars

\* C25 as stated: the same three fields change in each workload that is
\* patched, the deployment and the daemonset
C25_ThreeFieldsEachWorkload ==
    [][/\ DeploymentUpdated =>
            kube' = [kube EXCEPT
                       !.deployment.ImagePullSecrets = op.images.imagePullSecrets,
                       !.deployment.InitContainers = WithFirstImage(@, op.images.awsPluginImage),
                       !.deployment.Image = op.images.veleroImage]
       /\ DaemonSetUpdated =>
            kube' = [kube EXCEPT
                       !.daemonset.ImagePullSecrets = op.images.imagePullSecrets,
                       !.daemonset.InitContainers = WithFirstImage(@, op.images.awsPluginImage),
                       !.daemonset.Image = op.images.veleroImage]]_vars

\* both workloads were patched with images of the registry: the deployment
\* had a pull secret and two plugins, the daemonset an init container
C25_Witness ==
    /\ op.pc = "done" /\ op.err = "nil" /\ op.name = "ConfigureVeleroImages"
    /\ op.options.OverrideRegistry # ""
    /\ op.before.deployment.ImagePullSecrets = <<"regcred">>
    /\ Len(op.before.deployment.InitContainers) = 2
    /\ kube.deployment.ImagePullSecrets = <<"kotsadm-private-registry">>
    /\ kube.deployment.InitContainers[1] = op.images.awsPluginImage
    /\ kube.deployment.InitContainers[2] = op.before.deployment.InitContainers[2]
    /\ kube.deployment.Image = op.images.veleroImage
    /\ kube.daemonset.Image = op.images.veleroImage
    /\ kube.daemonset.InitContainers = <<"busybox">>
    /\ op.images.veleroImage # defaultVeleroImage

\* the operation is inside WaitForVeleroReady
Waiting == op.pc \in {"wait", "isready", "restic"}

\* WaitForVeleroReady has returned ok
WaitReturnedOk ==
    /\ op.pc = "done" /\ op.err = "nil"
    /\ op.name = "WaitForVeleroReady" \/ (op.name = "InstallVelero" /\ op.wait)

\* C26: WaitForVeleroReady returns ok only if the deployment and then the
\* daemonset were observed ready; a workload that is not ready before the
\* timeout of its wait makes it return an error; and it always returns
C26_WaitReadyBounded ==
    /\ [](WaitReturnedOk => op.observed = <<"deployment", "deployment", "daemonset">>)
    /\ []((op.pc = "restic") => op.observed = <<"deployment", "deployment">>)
    /\ []((op.pc = "done" /\ Len(op.observed) \in {1, 2}) => op.err # "nil")
    /\ [](Waiting => op.polls < MaxPolls)
    /\ [][(Waiting /\ op'.polls = op.polls /\ op'.observed = op.observed /\ op' # op)
            => (op'.pc = "done" /\ op'.err # "nil")]_vars
    /\ (Waiting ~> op.pc = "done")

\* InstallVelero waited and saw the deployment ready in both of its waits
\* and then the daemonset
C26_Witness ==
    /\ WaitReturnedOk /\ op.name = "InstallVelero"
    /\ op.observed = <<"deployment", "deployment", "daemonset">>
    /\ kube.deployment.exists /\ kube.daemonset.exists

\* ----------------------------------------------------- claims C27 - C29

SaveHandlers == {"SaveSnapshotConfig", "SaveInstanceSnapshotConfig"}
GetHandlers == {"GetSnapshotConfig", "GetInstanceSnapshotConfig"}

\* the retention of the save request in the slot is one FormatTTL rejects
RetentionRejected(sl) == FormatTTL(sl.inputValue, sl.inputTimeUnit).err

\* C27: the retention ("1", "month") is persisted as 720h and read back as
\* quantity 1, unit month, 720h; ("0", "month") is rejected, and a save
\* request whose retention is rejected is answered as a validation error
C27_RetentionRoundTrip ==
    /\ ~FormatTTL("1", "month").err
    /\ DurationString(FormatTTL("1", "month").ttl) = "720h"
    /\ ParseTTL(FormatTTL("1", "month").ttl) = [err |-> FALSE, Quantity |-> 1, Unit |-> "month"]
    /\ FormatTTL("0", "month").err
    /\ \A s \in Sessions :
          /\ (save[s].handler \in GetHandlers /\ save[s].status = 200
                /\ save[s].app.SnapshotTTL = FormatTTL("1", "month").ttl) =>
                save[s].ttl = [InputValue |-> "1", InputTimeUnit |-> "month",
                               Converted |-> "720h"]
          /\ (save[s].handler \in SaveHandlers /\ RetentionRejected(save[s])) =>
                /\ save[s].pc = "done"
                /\ ~save[s].success
                /\ save[s].app.ID # "" => save[s].status = 400

\* a workload whose retention was saved as ("1", "month") is read
C27_Witness ==
    \E s \in Sessions :
        /\ save[s].handler = "GetSnapshotConfig" /\ save[s].status = 200
        /\ save[s].app.SnapshotTTL = 720
        /\ save[s].ttl.Converted = "720h"
        /\ save[s].ttl.InputValue = "1"

\* C28: reading the snapshot configuration of a workload answers the
\* defaults for what is not stored: retention "1", "month", "720h" for an
\* empty stored retention, the expression "0 0 * * MON" with autoEnabled
\* false for an empty stored schedule; autoEnabled is true iff the stored
\* schedule is not empty; for the application and for the instance
C28_DefaultsWhenUnset ==
    \A s \in Sessions :
        (save[s].handler \in GetHandlers /\ save[s].pc = "done" /\ save[s].status = 200) =>
            /\ save[s].app = GetApp(save[s].app.ID)
            /\ save[s].handler = "GetSnapshotConfig" <=> save[s].app.ID \in Apps
            /\ snapshotTTL[save[s].app.ID] = 0 =>
                  save[s].ttl = [InputValue |-> "1", InputTimeUnit |-> "month",
                                 Converted |-> "720h"]
            /\ snapshotSchedule[save[s].app.ID] = "" =>
                  save[s].schedule = "0 0 * * MON" /\ ~save[s].autoEnabled
            /\ save[s].autoEnabled <=> snapshotSchedule[save[s].app.ID] # ""
            /\ snapshotSchedule[save[s].app.ID] # "" =>
                  save[s].schedule = snapshotSchedule[save[s].app.ID]

\* the instance has a retention of one week and its schedule was turned
\* off: the default expression is answered, with autoEnabled false
C28_Witness ==
    \E s \in Sessions :
        /\ save[s].handler = "GetInstanceSnapshotConfig" /\ save[s].status = 200
        /\ snapshotTTL[Clusters[1]] = 168 /\ snapshotSchedule[Clusters[1]] = ""
        /\ save[s].ttl = [InputValue |-> "1", InputTimeUnit |-> "week", Converted |-> "168h"]
        /\ save[s].schedule = "0 0 * * MON" /\ ~save[s].autoEnabled

\* C29: the validation of the cron expression accepts "0 0 * * MON" and
\* rejects "not-a-cron", in SaveSnapshotConfig and in SaveInstanceSnapshotConfig
C29_CronValidation ==
    /\ CronParserParse("0 0 * * MON") /\ ~CronParserParse("not-a-cron")
    /\ CronParseStandard("0 0 * * MON") /\ ~CronParseStandard("not-a-cron")
    /\ \A s \in Sessions :
          (save[s].handler \in SaveHandlers /\ save[s].autoEnabled) =>
             /\ (save[s].schedule = "not-a-cron" /\ save[s].pc # "ttl") =>
                   /\ save[s].pc = "done"
                   /\ ~save[s].success
                   /\ save[s].status \in {400, 500}
             /\ (save[s].schedule = "0 0 * * MON" /\ save[s].pc = "done"
                   /\ save[s].status = 400) => RetentionRejected(save[s])

\* the instance-level save answered 400 for "not-a-cron", the retention
\* being valid
C29_Witness ==
    \E s \in Sessions :
        /\ save[s].handler = "SaveInstanceSnapshotConfig" /\ save[s].pc = "done"
        /\ save[s].autoEnabled /\ save[s].schedule = "not-a-cron"
        /\ ~RetentionRejected(save[s]) /\ save[s].app.ID # ""
        /\ save[s].status = 400

\* ------------------------------------------------------------ claim C30

UpdateSessions == {s \in Sessions : req[s].handler = "UpdateGlobalSnapshotSettings"}

\* the step of a settings request in which configureNFSMinio returns an error
NFSReconcileFails(s) ==
    /\ s \in UpdateSessions
    /\ hpc[s] \in {"sent", "deploy"}
    /\ nfsErr'[s] # "nil"

\* C30: when the NFS reconcile inside UpdateGlobalSnapshotSettings fails, with
\* the conflict or with any other error, the handler answers in that very step
\* (409 or 500, no success, no store in the body) and ConfigureStore is not
\* called: the request never reaches the engine step with a failed reconcile,
\* and the failing step leaves the persisted store and the recorded share as
\* they were.
C30_NFSFailureSkipsConfigureStore ==
    /\ [](\A s \in UpdateSessions : hpc[s] = "engine" => nfsErr[s] = "nil")
    /\ [](\A s \in UpdateSessions :
            (hpc[s] = "responded" /\ nfsErr[s] # "nil")
                => resp[s].store = "" /\ ~resp[s].success)
    /\ [][\A s \in Sessions :
            NFSReconcileFails(s)
                => /\ hpc'[s] = "responded"
                   /\ resp'[s].status = (IF nfsErr'[s] = "ResetNFSError" THEN 409 ELSE 500)
                   /\ globalStore' = globalStore
                   /\ nfsRecorded' = nfsRecorded]_vars

\* a settings request for another share than the recorded one was answered 409
\* while the persisted store is not the NFS provider
C30_Witness ==
    \E s \in UpdateSessions :
        /\ hpc[s] = "responded"
        /\ nfsErr[s] = "ResetNFSError"
        /\ resp[s].status = 409
        /\ resp[s].store = ""
        /\ req[s].nfs # nfsRecorded
        /\ globalStore # "nfs"

\* ------------------------------------------------------------ claim C32

\* the plugin names a deployment of the namespace can have
PluginNames ==
    UNION {{l[i] : i \in 1..Len(l)} : l \in InitContainerLists}

\* C32: when DetectVelero has scanned the deployments without an error, every
\* init-container name is in VeleroStatus.Plugins at most once for each
\* deployment of the namespace that has an init container of that name:
\* a deployment listed under both labels is not counted twice
C32_PluginsFormASet ==
    (scan.pc = "done" /\ scan.err = "nil") =>
        \A name \in PluginNames :
            Cardinality({i \in 1..Len(scan.Plugins) : scan.Plugins[i] = name})
               <= Cardinality({k \in 1..Len(scan.deployments) :
                                 \E c \in 1..Len(scan.deployments[k].InitContainers) :
                                    scan.deployments[k].InitContainers[c] = name})

\* ----------------------------------------------------- claims C31 - C35

\* a quantity that is no positive number, or a unit that is none
InvalidRetention(v, u) == Atoi(v) <= 0 \/ UnitHours(u) = 0

\* the step in which a handler takes up a save request with such a retention
SaveStartsInvalid(s) ==
    /\ save[s].pc = "idle"
    /\ save'[s].handler \in SaveHandlers
    /\ InvalidRetention(save'[s].inputValue, save'[s].inputTimeUnit)

\* C31: a save request whose retention FormatTTL rejects is answered in the
\* step that reads the workload, as a validation error (400) once the
\* workload has been read, never as a success, and that step leaves the stored
\* retentions, the stored schedules and the pending requests as they were,
\* with auto-scheduling on and with auto-scheduling off
C31_InvalidRetentionNoWrite ==
    [][\A s \in Sessions :
         SaveStartsInvalid(s)
         => /\ save'[s].pc = "done"
            /\ ~save'[s].success
            /\ save'[s].status = (IF save'[s].app.ID = "" THEN 500 ELSE 400)
            /\ snapshotTTL' = snapshotTTL
            /\ snapshotSchedule' = snapshotSchedule
            /\ pending' = pending
      ]_vars

\* a request with the retention ("0", "week"), auto-scheduling on and a new
\* valid expression was rejected for a workload that has a schedule, a
\* retention and a pending request: all three are as before
C31_Witness ==
    \E s \in Sessions :
        LET w == save[s].app.ID
        IN /\ save[s].handler \in SaveHandlers /\ save[s].pc = "done"
           /\ save[s].status = 400 /\ save[s].inputValue = "0"
           /\ save[s].autoEnabled /\ save[s].schedule = Daily
           /\ w # "" /\ snapshotSchedule[w] = Weekly /\ snapshotTTL[w] = 168
           /\ PendingOf(w) # {} /\ PendingOf(w) = save[s].before

\* C33: between save requests, whose calls of the record store may each
\* fail, and with no executor taking scheduled snapshots away, a workload
\* with a stored schedule has at least one pending scheduled snapshot
C33_ScheduleHasPending ==
    SaveInFlight = {} =>
        \A w \in Workloads : snapshotSchedule[w] # "" => PendingOf(w) # {}

\* C34: between save requests, whose calls of the record store may each
\* fail, a workload whose stored schedule is empty has no pending scheduled
\* snapshot
C34_NoScheduleNoPending ==
    SaveInFlight = {} =>
        \A w \in Workloads : snapshotSchedule[w] = "" => PendingOf(w) = {}

\* C35: two save requests for one workload run at the same time; once both
\* are answered, neither by an error of the store, the workload has at most
\* one pending scheduled snapshot and that one was created under the
\* schedule that is stored
C35_ConcurrentSavesOnePending ==
    (\A s \in Sessions : save[s].pc = "done" /\ save[s].success /\ save[s].autoEnabled)
    => \A w \in Workloads :
         (\A s \in Sessions : save[s].app.ID = w)
         => /\ Cardinality(PendingOf(w)) <= 1
            /\ PendingOf(w) # {} => history.under[w] = snapshotSchedule[w]

\* ----------------------------------------------------- claims C36 - C38

\* C36: ConfigureNFSSnapshots is about to call InstallVeleroFromStoreNFS only
\* when the cluster holds no backup storage location named "default", also
\* when the listing of the locations failed
C36_InstallOnlyWithoutEngine ==
    (run.caller = "ConfigureNFSSnapshots" /\ run.pc = "install")
        => ~run.backupStorageLocations.exists

\* C37: a ConfigureNFSSnapshots request that finds the admin console not
\* cluster scoped is answered at once, 200 with isMinimalRBACEnabled true and
\* success false, and has made none of the calls that change the cluster:
\* no DeployNFSMinio, no InstallVelero, no ConfigureVeleroImages, no
\* ConfigureStore; and no other answer of the handler has isMinimalRBACEnabled
C37_MinimalRBACNoMutation ==
    (run.caller = "ConfigureNFSSnapshots" /\ run.response.isMinimalRBACEnabled)
        => /\ run.pc = "done"
           /\ run.response.status = 200
           /\ ~run.response.success
           /\ run.response.error = ""
           /\ calls = <<>>

\* the handler has answered a request under minimal RBAC
C37_Witness ==
    /\ run.caller = "ConfigureNFSSnapshots" /\ run.pc = "done"
    /\ run.response.isMinimalRBACEnabled /\ run.response.status = 200
    /\ calls = <<>>

\* the step in which a settings request leaves the handler's entry: DetectVelero
\* has answered and the handler has either returned or gone on
DetectVeleroAnswered(s) ==
    /\ s \in UpdateSessions
    /\ hpc[s] = "sent"
    /\ hpc'[s] # "sent"

\* C38: a settings request that finds no engine (DetectVelero returns a nil
\* status) or whose detection fails is answered in that very step, 200 or 500,
\* without success and without a store in the body; the step attempts no
\* reconcile of the NFS backend and leaves the recorded share, its credentials
\* and the persisted store as they were, and without an engine no settings
\* request is ever inside DeployNFSMinio or at ConfigureStore.
C38_NoEngineNoMutation ==
    /\ [](\A s \in UpdateSessions : hpc[s] \in {"deploy", "engine"} => veleroInstalled)
    /\ [][\A s \in Sessions :
            (DetectVeleroAnswered(s) /\ ~veleroInstalled)
                => /\ hpc'[s] = "responded"
                   /\ resp'[s].status \in {200, 500}
                   /\ ~resp'[s].success
                   /\ resp'[s].store = ""
                   /\ nfsErr'[s] = nfsErr[s]
                   /\ nfsRecorded' = nfsRecorded /\ nfsCreds' = nfsCreds
                   /\ globalStore' = globalStore /\ veleroInstalled' = veleroInstalled]_vars
    /\ [][\A s \in Sessions :
            (DetectVeleroAnswered(s) /\ resp'[s].status = 500)
                => /\ ~resp'[s].success
                   /\ resp'[s].store = ""
                   /\ nfsRecorded' = nfsRecorded /\ nfsCreds' = nfsCreds
                   /\ globalStore' = globalStore /\ veleroInstalled' = veleroInstalled]_vars

\* a settings request was answered 200 without success on a cluster that has
\* no engine
C38_Witness ==
    \E s \in UpdateSessions :
        /\ ~veleroInstalled
        /\ hpc[s] = "responded"
        /\ resp[s].status = 200
        /\ ~resp[s].success
        /\ resp[s].store = ""

\* ------------------------------------------------------------ claim C39

\* ConfigureVeleroImages has returned nil on a cluster where it rewrites
ConfigureVeleroImagesDone ==
    /\ op.name = "ConfigureVeleroImages"
    /\ op.pc = "done"
    /\ op.err = "nil"
    /\ ~IsKurlDefault(op.isKurl, op.kotsadmNamespace)

\* C39: after ConfigureVeleroImages has returned without error on a cluster
\* where it rewrites, the restore helper's config map exists iff the helper's
\* image is not the default one, and then its entry "image" is that image;
\* and during and after a second run with the same registry options the
\* deployment, the daemonset and the config map are what they were when the
\* second run began.
C39_ConfigMapAndIdempotence ==
    /\ ConfigureVeleroImagesDone
            => /\ kube.configMap.exists
                    <=> (op.images.resticRestoreHelperImage # defaultVeleroResticRestoreHelperImage)
               /\ kube.configMap.exists
                    => kube.configMap.image = op.images.resticRestoreHelperImage
    /\ (op.name = "ConfigureVeleroImages" /\ op.again)
            => /\ kube.deployment = op.before.deployment
               /\ kube.daemonset = op.before.daemonset
               /\ kube.configMap = op.before.configMap

\* the second run has returned nil after writing the three objects again, on
\* a cluster whose config map it found with another image before the first run
C39_Witness ==
    /\ ConfigureVeleroImagesDone
    /\ op.again
    /\ kube.configMap.exists
    /\ kube.configMap.other = "kept"
    /\ kube.configMap.image = "registry.local/" \o defaultVeleroResticRestoreHelperImage
    /\ Len(op.accesses) >= 6

\* ------------------------------------------------------------ claim C40

\* what a call of the store does, whichever of the two workloads it is for
EffectKind(call) ==
    CASE call \in {"SetSnapshotTTL", "SetInstanceSnapshotTTL"} -> "set-retention"
      [] call \in {"SetSnapshotSchedule", "SetInstanceSnapshotSchedule"} -> "set-schedule"
      [] call \in {"DeletePendingScheduledSnapshots",
                   "DeletePendingScheduledInstanceSnapshots"} -> "purge"
      [] call \in {"CreateScheduledSnapshot", "CreateScheduledInstanceSnapshot"} -> "create-pending"

\* the effects a save request has had so far, in their order
Effects(s) == [i \in 1..Len(save[s].effects) |-> EffectKind(save[s].effects[i])]

IsPrefixOf(a, b) == Len(a) <= Len(b) /\ \A i \in 1..Len(a) : a[i] = b[i]

\* what is stored for a workload, without the workload's name
StoredFor(w) ==
    [schedule |-> snapshotSchedule[w], retention |-> snapshotTTL[w],
     pending |-> {<<p.id, p.at>> : p \in PendingOf(w)}]

\* s is a request to SaveSnapshotConfig and t one to SaveInstanceSnapshotConfig
\* with the same body, and they found the same schedule, retention and queue
SameSaveRequest(s, t) ==
    /\ save[s].handler = "SaveSnapshotConfig" /\ save[s].app.ID # ""
    /\ save[t].handler = "SaveInstanceSnapshotConfig" /\ save[t].app.ID # ""
    /\ save[s].inputValue = save[t].inputValue
    /\ save[s].inputTimeUnit = save[t].inputTimeUnit
    /\ save[s].schedule = save[t].schedule
    /\ save[s].autoEnabled = save[t].autoEnabled
    /\ save[s].app.SnapshotSchedule = save[t].app.SnapshotSchedule
    /\ save[s].app.SnapshotTTL = save[t].app.SnapshotTTL
    /\ {<<p.id, p.at>> : p \in save[s].before} = {<<p.id, p.at>> : p \in save[t].before}

\* C40: a request to SaveSnapshotConfig and a request to
\* SaveInstanceSnapshotConfig with the same retention, expression and
\* autoEnabled, which found the same stored schedule, retention and scheduled
\* snapshots, go through the same effects in the same order: at any moment one
\* sequence of effects is a prefix of the other; after the same number of
\* effects they are at the same step, or both have answered, unless a call of
\* the store failed for one of them; requests that no store failure ended
\* have the same effects; and with the same effects and the same kind of end
\* they answer the same and leave the same schedule, retention and queue.
C40_SameStateMachine ==
    \A s, t \in Sessions :
        SameSaveRequest(s, t) =>
            LET a == save[s]
                c == save[t]
                sameLength == Len(a.effects) = Len(c.effects)
            IN /\ IsPrefixOf(Effects(s), Effects(t)) \/ IsPrefixOf(Effects(t), Effects(s))
               /\ (sameLength /\ a.pc # "done" /\ c.pc # "done") => a.pc = c.pc
               /\ (sameLength /\ a.pc = "done" /\ c.pc # "done") => a.status = 500
               /\ (sameLength /\ c.pc = "done" /\ a.pc # "done") => c.status = 500
               /\ (a.pc = "done" /\ c.pc = "done" /\ a.status # 500 /\ c.status # 500)
                     => sameLength
               /\ (a.pc = "done" /\ c.pc = "done" /\ sameLength
                      /\ (a.status = 500 <=> c.status = 500))
                     => /\ a.status = c.status
                        /\ a.success = c.success
                        /\ StoredFor(a.app.ID) = StoredFor(c.app.ID)

\* both requests replaced a stored schedule and its scheduled snapshot and
\* changed the retention: four effects each, and both answered success
C40_Witness ==
    \E s, t \in Sessions :
        /\ SameSaveRequest(s, t)
        /\ save[s].pc = "done" /\ save[t].pc = "done"
        /\ save[s].success /\ save[t].success
        /\ save[s].before # {}
        /\ Effects(s) = <<"set-retention", "purge", "set-schedule", "create-pending">>
        /\ Effects(t) = Effects(s)
        /\ StoredFor(save[s].app.ID) = StoredFor(save[t].app.ID)
        /\ PendingOf(save[s].app.ID) # {}

====
